---- MODULE Spec2Model ----
(***************************************************************************)
(* A model of the SQL-subset parser of sql.go: the entry points Parse and  *)
(* ParseMany, the step machine of parser.doParse, the lexical scanner      *)
(* (peek / pop / peekWithLength ...) and parser.validate.                  *)
(*                                                                         *)
(* A Go string is a sequence of one-character strings, so that slicing,    *)
(* upper-casing and character classes are computed as the code computes    *)
(* them.  The empty string is <<>>.  Error values are TLA+ strings holding *)
(* the message; the nil error is Nil.                                      *)
(***************************************************************************)
EXTENDS Integers, Sequences, FiniteSets, TLC

\* ------------------------------------------------------------------------
\* Characters and the string library functions the parser calls
\* ------------------------------------------------------------------------

LowerLetters == {"a","b","c","d","e","f","g","h","i","j","k","l","m",
                 "n","o","p","q","r","s","t","u","v","w","x","y","z"}

UpperLetters == {"A","B","C","D","E","F","G","H","I","J","K","L","M",
                 "N","O","P","Q","R","S","T","U","V","W","X","Y","Z"}

Digits == {"0","1","2","3","4","5","6","7","8","9"}

\* unicode.ToUpper restricted to ASCII
UpperOf ==
    ("a" :> "A") @@ ("b" :> "B") @@ ("c" :> "C") @@ ("d" :> "D") @@
    ("e" :> "E") @@ ("f" :> "F") @@ ("g" :> "G") @@ ("h" :> "H") @@
    ("i" :> "I") @@ ("j" :> "J") @@ ("k" :> "K") @@ ("l" :> "L") @@
    ("m" :> "M") @@ ("n" :> "N") @@ ("o" :> "O") @@ ("p" :> "P") @@
    ("q" :> "Q") @@ ("r" :> "R") @@ ("s" :> "S") @@ ("t" :> "T") @@
    ("u" :> "U") @@ ("v" :> "V") @@ ("w" :> "W") @@ ("x" :> "X") @@
    ("y" :> "Y") @@ ("z" :> "Z")

ToUpperChar(c) == IF c \in LowerLetters THEN UpperOf[c] ELSE c

\* a letter in lower case, any other character as it is
ToLowerChar(c) ==
    IF c \in UpperLetters THEN CHOOSE l \in LowerLetters : UpperOf[l] = c ELSE c

\* strings.ToUpper
ToUpper(s) == [n \in 1..Len(s) |-> ToUpperChar(s[n])]

\* the builtin min of sql.go
min(a, b) == IF a < b THEN a ELSE b

\* the Go slice expression s[lo:hi] (0-based, hi exclusive)
Slice(s, lo, hi) == SubSeq(s, lo + 1, hi)

\* the regexp class \s restricted to the characters the inputs use
WhiteSpace == {" ", "\t", "\n"}

\* the backquote character, which a TLA+ string cannot hold
Backquote == "<backquote>"

\* strings.Replace(s, backquote, "", -1)
StripBackticks(s) == SelectSeq(s, LAMBDA c : c # Backquote)

\* regexp.MustCompile("\s+").ReplaceAllString(s, " "): the first character
\* of every run of white space becomes one space, the rest of the run goes
CollapseSpace(s) ==
    LET marked == [n \in 1..Len(s) |->
                     IF s[n] \notin WhiteSpace THEN s[n]
                     ELSE IF n > 1 /\ s[n - 1] \in WhiteSpace THEN "<dropped>"
                     ELSE " "]
    IN  SelectSeq(marked, LAMBDA c : c # "<dropped>")

\* strings.TrimSpace
TrimSpace(s) ==
    LET solid == {n \in 1..Len(s) : s[n] \notin WhiteSpace}
    IN  IF solid = {} THEN <<>>
        ELSE SubSeq(s, CHOOSE m \in solid : \A o \in solid : m <= o,
                       CHOOSE m \in solid : \A o \in solid : m >= o)

\* strings.Contains
Contains(s, sub) ==
    \E n \in 0..(Len(s) - Len(sub)) : Slice(s, n, n + Len(sub)) = sub

\* strings.Split(s, ".") : the parts between the separators, in order
RECURSIVE SplitFrom(_, _, _)
SplitFrom(s, n, cur) ==
    IF n > Len(s) THEN <<cur>>
    ELSE IF s[n] = "." THEN <<cur>> \o SplitFrom(s, n + 1, <<>>)
    ELSE SplitFrom(s, n + 1, Append(cur, s[n]))

SplitDot(s) == SplitFrom(s, 1, <<>>)

DigitVal ==
    ("0" :> 0) @@ ("1" :> 1) @@ ("2" :> 2) @@ ("3" :> 3) @@ ("4" :> 4) @@
    ("5" :> 5) @@ ("6" :> 6) @@ ("7" :> 7) @@ ("8" :> 8) @@ ("9" :> 9)

\* the digits of the largest int and of the magnitude of the smallest int
\* (int is 64 bits wide)
MaxIntDigits == <<"9","2","2","3","3","7","2","0","3","6","8","5","4","7","7","5","8","0","7">>

MinIntDigits == <<"9","2","2","3","3","7","2","0","3","6","8","5","4","7","7","5","8","0","8">>

\* a run of digits without its leading zeros
RECURSIVE StripLeadingZeros(_)
StripLeadingZeros(ds) ==
    IF Len(ds) > 1 /\ ds[1] = "0" THEN StripLeadingZeros(Tail(ds)) ELSE ds

\* the number written a is at most the number written b, both without
\* leading zeros
DigitsAtMost(a, b) ==
    \/ Len(a) < Len(b)
    \/ /\ Len(a) = Len(b)
       /\ \/ a = b
          \/ \E n \in 1..Len(a) :
                /\ SubSeq(a, 1, n - 1) = SubSeq(b, 1, n - 1)
                /\ DigitVal[a[n]] < DigitVal[b[n]]

\* strconv.Atoi gives no error: an optional sign followed by at least one
\* digit, the number written being within the range of int
AtoiOk(s) ==
    LET body == IF s # <<>> /\ s[1] \in {"+", "-"} THEN Tail(s) ELSE s
    IN  /\ body # <<>>
        /\ \A n \in 1..Len(body) : body[n] \in Digits
        /\ DigitsAtMost(StripLeadingZeros(body),
                        IF s[1] = "-" THEN MinIntDigits ELSE MaxIntDigits)

RECURSIVE DigitsVal(_)
DigitsVal(s) ==
    IF s = <<>> THEN 0
    ELSE 10 * DigitsVal(SubSeq(s, 1, Len(s) - 1)) + DigitVal[s[Len(s)]]

Atoi(s) ==
    IF s[1] = "-" THEN 0 - DigitsVal(Tail(s))
    ELSE IF s[1] = "+" THEN DigitsVal(Tail(s))
    ELSE DigitsVal(s)

\* regexp.MatchString("[a-zA-Z_][a-zA-Z_0-9]*", s): the pattern is not
\* anchored, so it matches as soon as s holds one letter or underscore
MatchesIdentifierPattern(s) ==
    \E n \in 1..Len(s) : s[n] \in LowerLetters \cup UpperLetters \cup {"_"}

\* regexp.MatchString("[\.\-a-zA-Z0-9_*]", string(c))
IsIdentifierChar(c) ==
    c \in LowerLetters \cup UpperLetters \cup Digits \cup {".", "-", "_", "*"}

\* ------------------------------------------------------------------------
\* The reserved-word catalogues
\* ------------------------------------------------------------------------

\* the catalogue with the one-character operators and ON moved to the front
reservedWordsShortFirst == <<
    <<"(">>, <<")">>, <<",">>, <<"=">>, <<">">>, <<"<">>, <<"O","N">>, <<">","=">>, <<"<","=">>, <<"!","=">>,
    <<"S","E","L","E","C","T">>, <<"T","O","P">>, <<"I","N","S","E","R","T"," ","I","N","T","O">>, <<"V","A","L","U","E","S">>, <<"U","P","D","A","T","E">>,
    <<"D","E","L","E","T","E"," ","F","R","O","M">>, <<"W","H","E","R","E">>, <<"F","R","O","M">>, <<"S","E","T">>,
    <<"O","N"," ","D","U","P","L","I","C","A","T","E"," ","K","E","Y"," ","U","P","D","A","T","E">>, <<"O","R","D","E","R"," ","B","Y">>, <<"A","S","C">>, <<"D","E","S","C">>,
    <<"L","E","F","T"," ","J","O","I","N">>, <<"R","I","G","H","T"," ","J","O","I","N">>, <<"I","N","N","E","R"," ","J","O","I","N">>, <<"J","O","I","N">> >>

reservedWords == <<
    <<"(">>, <<")">>, <<">","=">>, <<"<","=">>, <<"!","=">>, <<",">>, <<"=">>, <<">">>, <<"<">>,
    <<"S","E","L","E","C","T">>, <<"T","O","P">>, <<"I","N","S","E","R","T"," ","I","N","T","O">>, <<"V","A","L","U","E","S">>, <<"U","P","D","A","T","E">>,
    <<"D","E","L","E","T","E"," ","F","R","O","M">>, <<"W","H","E","R","E">>, <<"F","R","O","M">>, <<"S","E","T">>,
    <<"O","N"," ","D","U","P","L","I","C","A","T","E"," ","K","E","Y"," ","U","P","D","A","T","E">>, <<"O","R","D","E","R"," ","B","Y">>, <<"A","S","C">>, <<"D","E","S","C">>,
    <<"L","E","F","T"," ","J","O","I","N">>, <<"R","I","G","H","T"," ","J","O","I","N">>, <<"I","N","N","E","R"," ","J","O","I","N">>, <<"J","O","I","N">>, <<"O","N">> >>

reservedWordsOnly == <<
    <<"S","E","L","E","C","T">>, <<"T","O","P">>, <<"I","N","S","E","R","T"," ","I","N","T","O">>, <<"V","A","L","U","E","S">>, <<"U","P","D","A","T","E">>,
    <<"D","E","L","E","T","E"," ","F","R","O","M">>, <<"W","H","E","R","E">>, <<"F","R","O","M">>, <<"S","E","T">>,
    <<"O","N"," ","D","U","P","L","I","C","A","T","E"," ","K","E","Y"," ","U","P","D","A","T","E">>, <<"O","R","D","E","R"," ","B","Y">>, <<"A","S","C">>, <<"D","E","S","C">>,
    <<"L","E","F","T"," ","J","O","I","N">>, <<"R","I","G","H","T"," ","J","O","I","N">>, <<"I","N","N","E","R"," ","J","O","I","N">>, <<"J","O","I","N">>, <<"O","N">> >>

isIdentifier(s) ==
    IF \E n \in 1..Len(reservedWords) : ToUpper(s) = reservedWords[n]
    THEN FALSE
    ELSE MatchesIdentifierPattern(s)

\* despite its name: FALSE for a reserved word, and otherwise whether s
\* matches the identifier pattern
isReservedWord(s) ==
    IF \E n \in 1..Len(reservedWordsOnly) : ToUpper(s) = reservedWordsOnly[n]
    THEN FALSE
    ELSE MatchesIdentifierPattern(s)

isIdentifierOrAsterisk(s) == isIdentifier(s) \/ s = <<"*">>

\* ------------------------------------------------------------------------
\* The lexical scanner.  p is the parser: p.i the cursor (0-based), p.sql
\* the text.  A peek returns <<token, length>>.
\* ------------------------------------------------------------------------

peekQuotedStringWithLength(p) ==
    IF Len(p.sql) < p.i \/ p.sql[p.i + 1] # "'" THEN << <<>>, 0 >>
    ELSE LET closing == {n \in (p.i + 1)..(Len(p.sql) - 1) : p.sql[n + 1] = "'"}
         IN  IF closing = {} THEN << <<>>, 0 >>
             ELSE LET n == CHOOSE m \in closing : \A o \in closing : m <= o
                  IN  << Slice(p.sql, p.i + 1, n), (n - (p.i + 1)) + 2 >>

peekIdentifierWithLength(p) ==
    LET stops == {n \in p.i..(Len(p.sql) - 1) : ~IsIdentifierChar(p.sql[n + 1])}
    IN  IF stops = {}
        THEN << Slice(p.sql, p.i, Len(p.sql)), Len(p.sql) - p.i >>
        ELSE LET n == CHOOSE m \in stops : \A o \in stops : m <= o
             IN  << Slice(p.sql, p.i, n), n - p.i >>

peekWithLength(p) ==
    IF p.i >= Len(p.sql) THEN << <<>>, 0 >>
    ELSE LET hits == {n \in 1..Len(reservedWords) :
                        ToUpper(Slice(p.sql, p.i,
                                      min(Len(p.sql), p.i + Len(reservedWords[n]))))
                          = reservedWords[n]}
         IN  IF hits # {}
             THEN LET n == CHOOSE m \in hits : \A o \in hits : m <= o
                  IN  << reservedWords[n], Len(reservedWords[n]) >>
             ELSE IF p.sql[p.i + 1] = "'"
                  THEN peekQuotedStringWithLength(p)
                  ELSE peekIdentifierWithLength(p)

peek(p) == peekWithLength(p)[1]

\* the cursor after the run of spaces starting at n
RECURSIVE SkipSpaces(_, _)
SkipSpaces(sql, n) ==
    IF n < Len(sql) /\ sql[n + 1] = " " THEN SkipSpaces(sql, n + 1) ELSE n

popWhitespace(p) == [p EXCEPT !.i = SkipSpaces(p.sql, p.i)]

\* pop: the parser after the token at the cursor and the spaces behind it
\* are consumed; the token popped is peek(p)
pop(p) == popWhitespace([p EXCEPT !.i = p.i + peekWithLength(p)[2]])

\* ------------------------------------------------------------------------
\* The query (AST) and the parser
\* ------------------------------------------------------------------------

Nil == "nil"

\* the values of query.Type and query.Operator that sql.go names
QueryTypes == {"UnknownType", "Select", "Insert", "Update", "Delete"}

Operators == {"UnknownOperator", "Eq", "Gt", "Gte", "Lt", "Lte", "Ne"}

\* a Go map from string to string: a function on the keys stored so far
EmptyMap == <<>>

MapSet(m, key, value) ==
    [x \in (DOMAIN m) \cup {key} |-> IF x = key THEN value ELSE m[x]]

\* query.Query{}: every field at its zero value
EmptyQuery ==
    [Type |-> "UnknownType", TableName |-> <<>>, Database |-> <<>>,
     Fields |-> <<>>, MaxRows |-> 0, Conditions |-> <<>>,
     Updates |-> EmptyMap, Inserts |-> <<>>, OrderFields |-> <<>>,
     OrderDir |-> <<>>, Joins |-> <<>>]

\* query.Condition{Operand1: identifier, Operand1IsField: true}
NewCondition(identifier) ==
    [Operand1 |-> identifier, Operand1IsField |-> TRUE,
     Operator |-> "UnknownOperator",
     Operand2 |-> <<>>, Operand2IsField |-> FALSE]

\* query.Join{Type: joinType, Table: "UNKNOWN"}
NewJoin(joinType) ==
    [Type |-> joinType, Table |-> <<"U","N","K","N","O","W","N">>, Conditions |-> <<>>]

\* &parser{0, strings.TrimSpace(sql), stepType, query.Query{}, nil, ""}
NewParser(sql) ==
    [i |-> 0, sql |-> TrimSpace(sql), step |-> "stepType",
     query |-> EmptyQuery, err |-> Nil, nextUpdateField |-> <<>>]

\* What one pass through the loop body of doParse does: the parser it
\* leaves, and whether the loop goes on ("continue"), doParse returns
\* p.query with err ("return"), or log.Fatal ends the process ("fatal").
Continue(p) == [p |-> p, out |-> "continue", err |-> Nil]

Return(p, err) == [p |-> p, out |-> "return", err |-> err]

Fatal(p) == [p |-> p, out |-> "fatal", err |-> Nil]

\* the last element of a non-empty sequence replaced
SetLast(s, x) == [s EXCEPT ![Len(s)] = x]

\* the operator switch of stepWhereOperator and stepJoinCondition
OperatorOf(token) ==
    IF token = <<"=">> THEN "Eq"
    ELSE IF token = <<">">> THEN "Gt"
    ELSE IF token = <<">","=">> THEN "Gte"
    ELSE IF token = <<"<">> THEN "Lt"
    ELSE IF token = <<"<","=">> THEN "Lte"
    ELSE IF token = <<"!","=">> THEN "Ne"
    ELSE "UnknownOperator"

\* the table-name block shared by the four table steps: the query with
\* Database and TableName set from the token
SetTable(q, tableName) ==
    IF Contains(tableName, <<".">>)
    THEN LET parts == SplitDot(tableName)
         IN  [q EXCEPT !.Database = parts[1], !.TableName = parts[2]]
    ELSE [q EXCEPT !.TableName = tableName]

\* ------------------------------------------------------------------------
\* The cases of the switch of doParse, one operator per step
\* ------------------------------------------------------------------------

caseStepType(p) ==
    LET t == ToUpper(peek(p)) IN
    IF t = <<"S","E","L","E","C","T">>
    THEN LET p1 == pop([p EXCEPT !.query.Type = "Select"])
         IN  IF ToUpper(peek(p1)) = <<"T","O","P">>
             THEN Continue([p1 EXCEPT !.step = "stepTop"])
             ELSE Continue([p1 EXCEPT !.step = "stepSelectField"])
    ELSE IF t = <<"I","N","S","E","R","T"," ","I","N","T","O">>
    THEN Continue([pop([p EXCEPT !.query.Type = "Insert"])
                      EXCEPT !.step = "stepInsertTable"])
    ELSE IF t = <<"U","P","D","A","T","E">>
    THEN Continue([pop([p EXCEPT !.query.Type = "Update",
                                 !.query.Updates = EmptyMap])
                      EXCEPT !.step = "stepUpdateTable"])
    ELSE IF t = <<"D","E","L","E","T","E"," ","F","R","O","M">>
    THEN Continue([pop([p EXCEPT !.query.Type = "Delete"])
                      EXCEPT !.step = "stepDeleteFromTable"])
    ELSE Return(p, "invalid query type")

caseStepTop(p) ==
    LET p1 == pop(p)
        tok == peek(p1)
        p2 == pop(p1)
    IN  IF ~AtoiOk(tok) THEN Fatal(p2)
        ELSE Continue([p2 EXCEPT !.query.MaxRows = Atoi(tok),
                                 !.step = "stepSelectField"])

\* stepSelectField putting the field in front of the list
caseStepSelectFieldPrepends(p) ==
    LET identifier == peek(p) IN
    IF ~isIdentifierOrAsterisk(identifier)
    THEN Return(p, "at SELECT: expected field to SELECT")
    ELSE LET p1 == pop([p EXCEPT !.query.Fields = <<identifier>> \o @])
         IN  IF ToUpper(peek(p1)) = <<"F","R","O","M">>
             THEN Continue([p1 EXCEPT !.step = "stepSelectFrom"])
             ELSE Continue([p1 EXCEPT !.step = "stepSelectComma"])

caseStepSelectField(p) ==
    LET identifier == peek(p) IN
    IF ~isIdentifierOrAsterisk(identifier)
    THEN Return(p, "at SELECT: expected field to SELECT")
    ELSE LET p1 == pop([p EXCEPT !.query.Fields = Append(@, identifier)])
         IN  IF ToUpper(peek(p1)) = <<"F","R","O","M">>
             THEN Continue([p1 EXCEPT !.step = "stepSelectFrom"])
             ELSE Continue([p1 EXCEPT !.step = "stepSelectComma"])

caseStepSelectComma(p) ==
    IF peek(p) # <<",">>
    THEN Return(p, "at SELECT: expected comma or FROM")
    ELSE Continue([pop(p) EXCEPT !.step = "stepSelectField"])

caseStepSelectFrom(p) ==
    IF ToUpper(peek(p)) # <<"F","R","O","M">>
    THEN Return(p, "at SELECT: expected FROM")
    ELSE Continue([pop(p) EXCEPT !.step = "stepSelectFromTable"])

caseStepSelectFromTable(p) ==
    LET tableName == peek(p) IN
    IF Len(tableName) = 0
    THEN Return(p, "at SELECT: expected quoted table name")
    ELSE LET p1 == pop([p EXCEPT !.query = SetTable(@, tableName)])
             look == ToUpper(peek(p1))
         IN  IF look = <<"W","H","E","R","E">>
             THEN Continue([p1 EXCEPT !.step = "stepWhere"])
             ELSE IF look = <<"O","R","D","E","R"," ","B","Y">>
             THEN Continue([p1 EXCEPT !.step = "stepOrder"])
             ELSE IF Contains(look, <<"J","O","I","N">>)
             THEN Continue([p1 EXCEPT !.step = "stepJoin"])
             ELSE Continue(p1)

caseStepInsertTable(p) ==
    LET tableName == peek(p) IN
    IF Len(tableName) = 0
    THEN Return(p, "at INSERT INTO: expected quoted table name")
    ELSE Continue([pop([p EXCEPT !.query = SetTable(@, tableName)])
                      EXCEPT !.step = "stepInsertFieldsOpeningParens"])

caseStepDeleteFromTable(p) ==
    LET tableName == peek(p) IN
    IF Len(tableName) = 0
    THEN Return(p, "at DELETE FROM: expected quoted table name")
    ELSE Continue([pop([p EXCEPT !.query = SetTable(@, tableName)])
                      EXCEPT !.step = "stepWhere"])

caseStepUpdateTable(p) ==
    LET tableName == peek(p) IN
    IF Len(tableName) = 0
    THEN Return(p, "at UPDATE: expected quoted table name")
    ELSE Continue([pop([p EXCEPT !.query = SetTable(@, tableName)])
                      EXCEPT !.step = "stepUpdateSet"])

caseStepUpdateSet(p) ==
    IF peek(p) # <<"S","E","T">>
    THEN Return(p, "at UPDATE: expected 'SET'")
    ELSE Continue([pop(p) EXCEPT !.step = "stepUpdateField"])

caseStepUpdateField(p) ==
    LET identifier == peek(p) IN
    IF ~isIdentifier(identifier) /\ isReservedWord(identifier)
    THEN Return(p, "at UPDATE: expected at least one field to update")
    ELSE Continue([pop([p EXCEPT !.nextUpdateField = identifier])
                      EXCEPT !.step = "stepUpdateEquals"])

caseStepUpdateEquals(p) ==
    IF peek(p) # <<"=">>
    THEN Return(p, "at UPDATE: expected '='")
    ELSE Continue([pop(p) EXCEPT !.step = "stepUpdateValue"])

\* the value read by stepUpdateValue, stepWhereValue and stepInsertValues:
\* a quoted string, or else whatever token the scanner gives
peekValueWithLength(p) ==
    LET quoted == peekQuotedStringWithLength(p)
    IN  IF quoted[2] = 0 THEN peekWithLength(p) ELSE quoted

caseStepUpdateValue(p) ==
    LET value == peekValueWithLength(p) IN
    IF value[2] = 0
    THEN Return(p, "at UPDATE: expected quoted value")
    ELSE LET p1 == pop([p EXCEPT
                          !.query.Updates = MapSet(@, p.nextUpdateField, value[1]),
                          !.nextUpdateField = <<>>])
         IN  IF ToUpper(peek(p1)) = <<"W","H","E","R","E">>
             THEN Continue([p1 EXCEPT !.step = "stepWhere"])
             ELSE Continue([p1 EXCEPT !.step = "stepUpdateComma"])

caseStepUpdateComma(p) ==
    IF peek(p) # <<",">>
    THEN Return(p, "at UPDATE: expected ','")
    ELSE Continue([pop(p) EXCEPT !.step = "stepUpdateField"])

caseStepWhere(p) ==
    IF ToUpper(peek(p)) # <<"W","H","E","R","E">>
    THEN Return(p, "expected WHERE")
    ELSE Continue([pop(p) EXCEPT !.step = "stepWhereField"])

caseStepWhereField(p) ==
    LET identifier == peek(p) IN
    IF ~isIdentifier(identifier)
    THEN Return(p, "at WHERE: expected field")
    ELSE Continue([pop([p EXCEPT !.query.Conditions =
                                     Append(@, NewCondition(identifier))])
                      EXCEPT !.step = "stepWhereOperator"])

caseStepWhereOperator(p) ==
    LET operator == peek(p)
        conds == p.query.Conditions
        currentCondition == conds[Len(conds)]
    IN  IF OperatorOf(operator) = "UnknownOperator"
        THEN Return(p, "at WHERE: unknown operator")
        ELSE Continue([pop([p EXCEPT !.query.Conditions =
                              SetLast(@, [currentCondition EXCEPT
                                            !.Operator = OperatorOf(operator)])])
                          EXCEPT !.step = "stepWhereValue"])

caseStepWhereValue(p) ==
    LET value == peekValueWithLength(p)
        conds == p.query.Conditions
        currentCondition == conds[Len(conds)]
    IN  IF value[2] = 0
        THEN Return(p, "at WHERE: expected quoted value")
        ELSE LET p1 == pop([p EXCEPT !.query.Conditions =
                              SetLast(@, [currentCondition EXCEPT
                                            !.Operand2 = value[1],
                                            !.Operand2IsField = FALSE])])
             IN  IF ToUpper(peek(p1)) = <<"O","R","D","E","R"," ","B","Y">>
                 THEN Continue([pop(p1) EXCEPT !.step = "stepOrderField"])
                 ELSE Continue([p1 EXCEPT !.step = "stepWhereAnd"])

\* stepWhereAnd comparing the token as written
caseStepWhereAndAsWritten(p) ==
    IF peek(p) # <<"A","N","D">>
    THEN Return(p, "expected AND")
    ELSE Continue([pop(p) EXCEPT !.step = "stepWhereField"])

caseStepWhereAnd(p) ==
    IF ToUpper(peek(p)) # <<"A","N","D">>
    THEN Return(p, "expected AND")
    ELSE Continue([pop(p) EXCEPT !.step = "stepWhereField"])

caseStepOrder(p) ==
    IF ToUpper(peek(p)) # <<"O","R","D","E","R"," ","B","Y">>
    THEN Return(p, "expected ORDER")
    ELSE Continue([pop(p) EXCEPT !.step = "stepOrderField"])

\* stepOrderField taking the direction of the field before as the default
caseStepOrderFieldKeepsDirection(p) ==
    LET identifier == peek(p)
        dirs == p.query.OrderDir
        dir == IF dirs = <<>> THEN <<"A","S","C">> ELSE dirs[Len(dirs)]
    IN  IF ~isIdentifier(identifier)
        THEN Return(p, "at ORDER BY: expected field to ORDER")
        ELSE Continue([pop([p EXCEPT !.query.OrderFields = Append(@, identifier),
                                     !.query.OrderDir = Append(@, dir)])
                          EXCEPT !.step = "stepOrderDirectionOrComma"])

caseStepOrderField(p) ==
    LET identifier == peek(p) IN
    IF ~isIdentifier(identifier)
    THEN Return(p, "at ORDER BY: expected field to ORDER")
    ELSE Continue([pop([p EXCEPT !.query.OrderFields = Append(@, identifier),
                                 !.query.OrderDir = Append(@, <<"A","S","C">>)])
                      EXCEPT !.step = "stepOrderDirectionOrComma"])

\* stepOrderDirectionOrComma appending the direction it reads
caseStepOrderDirectionAppends(p) ==
    LET commaRWord == peek(p) IN
    IF commaRWord = <<",">>
    THEN Continue([pop(p) EXCEPT !.step = "stepOrderField"])
    ELSE IF commaRWord = <<"A","S","C">> \/ commaRWord = <<"D","E","S","C">>
    THEN Continue([pop(p) EXCEPT !.query.OrderDir = Append(@, commaRWord)])
    ELSE Continue([p EXCEPT !.step = "stepOrderField"])

caseStepOrderDirectionOrComma(p) ==
    LET commaRWord == peek(p) IN
    IF commaRWord = <<",">>
    THEN Continue([pop(p) EXCEPT !.step = "stepOrderField"])
    ELSE IF commaRWord = <<"A","S","C">> \/ commaRWord = <<"D","E","S","C">>
    THEN Continue([pop(p) EXCEPT !.query.OrderDir = SetLast(@, commaRWord)])
    ELSE Continue([p EXCEPT !.step = "stepOrderField"])

caseStepJoin(p) ==
    LET joinType == peek(p) IN
    Continue([pop([p EXCEPT !.query.Joins = Append(@, NewJoin(joinType))])
                 EXCEPT !.step = "stepJoinTable"])

caseStepJoinTable(p) ==
    LET joinTable == peek(p)
        joins == p.query.Joins
        currentJoin == joins[Len(joins)]
        p1 == pop([p EXCEPT !.query.Joins =
                     SetLast(@, [currentJoin EXCEPT !.Table = joinTable])])
    IN  IF ToUpper(peek(p1)) = <<"O","N">>
        THEN Continue([p1 EXCEPT !.step = "stepJoinCondition"])
        ELSE Continue([p1 EXCEPT !.step = "stepOrder"])

caseStepJoinCondition(p) ==
    LET p1 == pop(p)
        op1 == peek(p1)
        p2 == pop(p1)
        op1split == SplitDot(op1)
        operator == peek(p2)
        p3 == pop(p2)
        op2 == peek(p3)
        p4 == pop(p3)
        op2split == SplitDot(op2)
    IN  IF Len(op1split) # 2
        THEN Return(p2, "at ON: expected <tablename>.<fieldname>")
        ELSE IF OperatorOf(operator) = "UnknownOperator"
        THEN Return(p2, "at ON: unknown operator")
        ELSE IF Len(op2split) # 2
        THEN Return(p4, "at ON: expected <tablename>.<fieldname>")
        ELSE
        LET currentCondition ==
                [Table1 |-> op1split[1], Operand1 |-> op1split[2],
                 Operator |-> OperatorOf(operator),
                 Table2 |-> op2split[1], Operand2 |-> op2split[2]]
            joins == p4.query.Joins
            currentJoin == joins[Len(joins)]
            p5 == [p4 EXCEPT !.query.Joins =
                     SetLast(@, [currentJoin EXCEPT
                                   !.Conditions = Append(@, currentCondition)])]
            nextOp == ToUpper(peek(p5))
        IN  IF nextOp = <<"W","H","E","R","E">>
            THEN Continue([p5 EXCEPT !.step = "stepWhere"])
            ELSE IF nextOp = <<"O","R","D","E","R"," ","B","Y">>
            THEN Continue([p5 EXCEPT !.step = "stepOrder"])
            ELSE IF nextOp = <<"A","N","D">>
            THEN Continue([p5 EXCEPT !.step = "stepJoinCondition"])
            ELSE IF Contains(nextOp, <<"J","O","I","N">>)
            THEN Continue([p5 EXCEPT !.step = "stepJoin"])
            ELSE Continue(p5)

caseStepInsertFieldsOpeningParens(p) ==
    LET openingParens == peek(p) IN
    IF Len(openingParens) # 1 \/ openingParens # <<"(">>
    THEN Return(p, "at INSERT INTO: expected opening parens")
    ELSE Continue([pop(p) EXCEPT !.step = "stepInsertFields"])

caseStepInsertFields(p) ==
    LET identifier == peek(p) IN
    IF ~isIdentifier(identifier) /\ isReservedWord(identifier)
    THEN Return(p, "at INSERT INTO: expected at least one field to insert")
    ELSE Continue([pop([p EXCEPT !.query.Fields = Append(@, identifier)])
                      EXCEPT !.step = "stepInsertFieldsCommaOrClosingParens"])

\* the characters of a token as the text of an error message
RECURSIVE StringOf(_)
StringOf(s) == IF s = <<>> THEN "" ELSE Head(s) \o StringOf(Tail(s))

\* fmt.Errorf called with a format without verbs and one string argument:
\* the surplus argument is reported behind the text
ErrorfExtra(format, arg) ==
    format \o "%!(EXTRA string=" \o StringOf(arg) \o ")"

caseStepInsertFieldsCommaOrClosingParens(p) ==
    LET commaOrClosingParens == peek(p) IN
    IF commaOrClosingParens # <<",">> /\ commaOrClosingParens # <<")">>
    THEN Return(p, ErrorfExtra("at INSERT INTO: expected comma or closing parens",
                               commaOrClosingParens))
    ELSE IF commaOrClosingParens = <<",">>
    THEN Continue([pop(p) EXCEPT !.step = "stepInsertFields"])
    ELSE Continue([pop(p) EXCEPT !.step = "stepInsertValuesRWord"])

caseStepInsertValuesRWord(p) ==
    IF ToUpper(peek(p)) # <<"V","A","L","U","E","S">>
    THEN Return(p, "at INSERT INTO: expected 'VALUES'")
    ELSE Continue([pop(p) EXCEPT !.step = "stepInsertValuesOpeningParens"])

\* stepInsertValuesOpeningParens not appending the empty row
caseStepInsertValuesOpeningParensNoRow(p) ==
    IF peek(p) # <<"(">>
    THEN Return(p, "at INSERT INTO: expected opening parens")
    ELSE Continue([pop(p) EXCEPT !.step = "stepInsertValues"])

caseStepInsertValuesOpeningParens(p) ==
    IF peek(p) # <<"(">>
    THEN Return(p, "at INSERT INTO: expected opening parens")
    ELSE Continue([pop([p EXCEPT !.query.Inserts = Append(@, <<>>)])
                      EXCEPT !.step = "stepInsertValues"])

caseStepInsertValues(p) ==
    LET value == peekValueWithLength(p)
        rows == p.query.Inserts
    IN  IF value[2] = 0
        THEN Return(p, "at INSERT INTO: expected quoted value")
        ELSE Continue([pop([p EXCEPT !.query.Inserts =
                              SetLast(@, Append(rows[Len(rows)], value[1]))])
                          EXCEPT !.step = "stepInsertValuesCommaOrClosingParens"])

caseStepInsertValuesCommaOrClosingParens(p) ==
    LET commaOrClosingParens == peek(p)
        p1 == pop(p)
        rows == p1.query.Inserts
        currentInsertRow == rows[Len(rows)]
    IN  IF commaOrClosingParens # <<",">> /\ commaOrClosingParens # <<")">>
        THEN Return(p, "at INSERT INTO: expected comma or closing parens")
        ELSE IF commaOrClosingParens = <<",">>
        THEN Continue([p1 EXCEPT !.step = "stepInsertValues"])
        ELSE IF Len(currentInsertRow) < Len(p1.query.Fields)
        THEN Return(p1, "at INSERT INTO: value count doesn't match field count")
        ELSE Continue([p1 EXCEPT
                         !.step = "stepInsertValuesCommaBeforeOpeningParens"])

\* stepInsertValuesCommaBeforeOpeningParens going on to the next row after
\* whatever token it pops
caseStepInsertValuesCommaGoesOn(p) ==
    LET commaRWord == peek(p) IN
    IF ToUpper(commaRWord) # <<",">> /\ isReservedWord(commaRWord)
    THEN Return(p, "at INSERT INTO: expected comma")
    ELSE Continue([pop(p) EXCEPT !.step = "stepInsertValuesOpeningParens"])

caseStepInsertValuesCommaBeforeOpeningParens(p) ==
    LET commaRWord == peek(p) IN
    IF ToUpper(commaRWord) # <<",">> /\ isReservedWord(commaRWord)
    THEN Return(p, "at INSERT INTO: expected comma")
    ELSE IF isReservedWord(commaRWord) = FALSE
    THEN Return(pop(p), Nil)
    ELSE Continue([pop(p) EXCEPT !.step = "stepInsertValuesOpeningParens"])

\* the switch of doParse: one pass through the loop body at step p.step
Step(p) ==
    CASE p.step = "stepType" -> caseStepType(p)
      [] p.step = "stepTop" -> caseStepTop(p)
      [] p.step = "stepSelectField" -> caseStepSelectField(p)
      [] p.step = "stepSelectFrom" -> caseStepSelectFrom(p)
      [] p.step = "stepSelectComma" -> caseStepSelectComma(p)
      [] p.step = "stepSelectFromTable" -> caseStepSelectFromTable(p)
      [] p.step = "stepInsertTable" -> caseStepInsertTable(p)
      [] p.step = "stepInsertFieldsOpeningParens" ->
             caseStepInsertFieldsOpeningParens(p)
      [] p.step = "stepInsertFields" -> caseStepInsertFields(p)
      [] p.step = "stepInsertFieldsCommaOrClosingParens" ->
             caseStepInsertFieldsCommaOrClosingParens(p)
      [] p.step = "stepInsertValuesOpeningParens" ->
             caseStepInsertValuesOpeningParens(p)
      [] p.step = "stepInsertValuesRWord" -> caseStepInsertValuesRWord(p)
      [] p.step = "stepInsertValues" -> caseStepInsertValues(p)
      [] p.step = "stepInsertValuesCommaOrClosingParens" ->
             caseStepInsertValuesCommaOrClosingParens(p)
      [] p.step = "stepInsertValuesCommaBeforeOpeningParens" ->
             caseStepInsertValuesCommaBeforeOpeningParens(p)
      [] p.step = "stepUpdateTable" -> caseStepUpdateTable(p)
      [] p.step = "stepUpdateSet" -> caseStepUpdateSet(p)
      [] p.step = "stepUpdateField" -> caseStepUpdateField(p)
      [] p.step = "stepUpdateEquals" -> caseStepUpdateEquals(p)
      [] p.step = "stepUpdateValue" -> caseStepUpdateValue(p)
      [] p.step = "stepUpdateComma" -> caseStepUpdateComma(p)
      [] p.step = "stepDeleteFromTable" -> caseStepDeleteFromTable(p)
      [] p.step = "stepWhere" -> caseStepWhere(p)
      [] p.step = "stepWhereField" -> caseStepWhereField(p)
      [] p.step = "stepWhereOperator" -> caseStepWhereOperator(p)
      [] p.step = "stepWhereValue" -> caseStepWhereValue(p)
      [] p.step = "stepWhereAnd" -> caseStepWhereAnd(p)
      [] p.step = "stepOrder" -> caseStepOrder(p)
      [] p.step = "stepOrderField" -> caseStepOrderField(p)
      [] p.step = "stepOrderDirectionOrComma" -> caseStepOrderDirectionOrComma(p)
      [] p.step = "stepJoin" -> caseStepJoin(p)
      [] p.step = "stepJoinTable" -> caseStepJoinTable(p)
      [] p.step = "stepJoinCondition" -> caseStepJoinCondition(p)

\* doParse run to its end from parser p
RECURSIVE doParse(_)
doParse(p) ==
    IF p.i >= Len(p.sql) THEN Return(p, p.err)
    ELSE LET r == Step(p)
         IN  IF r.out = "continue" THEN doParse(r.p) ELSE r

\* the body of the loop of validate over the conditions: the error one
\* condition gives, or Nil
conditionErr(c) ==
    IF c.Operator = "UnknownOperator"
    THEN "at WHERE: condition without operator"
    ELSE IF c.Operand1 = <<>> /\ c.Operand1IsField
    THEN "at WHERE: condition with empty left side operand"
    ELSE IF c.Operand2 = <<>> /\ c.Operand2IsField
    THEN "at WHERE: condition with empty right side operand"
    ELSE Nil

\* validate without its check that UPDATE and DELETE have a condition
validateNoMandatoryWhere(p) ==
    LET q == p.query
        bad == {n \in 1..Len(q.Conditions) : conditionErr(q.Conditions[n]) # Nil}
    IN
    IF Len(q.Conditions) = 0 /\ p.step = "stepWhereField"
    THEN "at WHERE: empty WHERE clause"
    ELSE IF q.Type = "UnknownType"
    THEN "query type cannot be empty"
    ELSE IF q.TableName = <<>>
    THEN "table name cannot be empty"
    ELSE IF bad # {}
    THEN conditionErr(q.Conditions[CHOOSE m \in bad : \A o \in bad : m <= o])
    ELSE IF q.Type = "Insert" /\ Len(q.Inserts) = 0
    THEN "at INSERT INTO: need at least one row to insert"
    ELSE IF q.Type = "Insert"
            /\ \E n \in 1..Len(q.Inserts) : Len(q.Inserts[n]) # Len(q.Fields)
    THEN "at INSERT INTO: value count doesn't match field count"
    ELSE Nil

\* validate without its check of the table name
validateNoTableName(p) ==
    LET q == p.query
        bad == {n \in 1..Len(q.Conditions) : conditionErr(q.Conditions[n]) # Nil}
    IN
    IF Len(q.Conditions) = 0 /\ p.step = "stepWhereField"
    THEN "at WHERE: empty WHERE clause"
    ELSE IF q.Type = "UnknownType"
    THEN "query type cannot be empty"
    ELSE IF Len(q.Conditions) = 0 /\ (q.Type = "Update" \/ q.Type = "Delete")
    THEN "at WHERE: WHERE clause is mandatory for UPDATE & DELETE"
    ELSE IF bad # {}
    THEN conditionErr(q.Conditions[CHOOSE m \in bad : \A o \in bad : m <= o])
    ELSE IF q.Type = "Insert" /\ Len(q.Inserts) = 0
    THEN "at INSERT INTO: need at least one row to insert"
    ELSE IF q.Type = "Insert"
            /\ \E n \in 1..Len(q.Inserts) : Len(q.Inserts[n]) # Len(q.Fields)
    THEN "at INSERT INTO: value count doesn't match field count"
    ELSE Nil

validate(p) ==
    LET q == p.query
        bad == {n \in 1..Len(q.Conditions) : conditionErr(q.Conditions[n]) # Nil}
    IN
    IF Len(q.Conditions) = 0 /\ p.step = "stepWhereField"
    THEN "at WHERE: empty WHERE clause"
    ELSE IF q.Type = "UnknownType"
    THEN "query type cannot be empty"
    ELSE IF q.TableName = <<>>
    THEN "table name cannot be empty"
    ELSE IF Len(q.Conditions) = 0 /\ (q.Type = "Update" \/ q.Type = "Delete")
    THEN "at WHERE: WHERE clause is mandatory for UPDATE & DELETE"
    ELSE IF bad # {}
    THEN conditionErr(q.Conditions[CHOOSE m \in bad : \A o \in bad : m <= o])
    ELSE IF q.Type = "Insert" /\ Len(q.Inserts) = 0
    THEN "at INSERT INTO: need at least one row to insert"
    ELSE IF q.Type = "Insert"
            /\ \E n \in 1..Len(q.Inserts) : Len(q.Inserts[n]) # Len(q.Fields)
    THEN "at INSERT INTO: value count doesn't match field count"
    ELSE Nil

\* the error parser.parse returns once doParse has returned err
parseErr(p, err) == IF err = Nil THEN validate(p) ELSE err

\* the normalisation both entry points apply to a statement
Normalize(sql) == CollapseSpace(StripBackticks(sql))

\* parse(sql) as a function of its argument: what the call returns, or
\* out = "fatal" when it never returns
parse(sql) ==
    LET r == doParse(NewParser(sql))
    IN  [q |-> r.p.query, out |-> r.out,
         err |-> IF r.out = "return" THEN parseErr(r.p, r.err) ELSE Nil]

\* Parse(sql) as a function of its argument, for a statement on which
\* parse returns: the first AST of ParseMany, or the empty Query when
\* ParseMany returned none
Parse(sql) ==
    LET r == parse(Normalize(Normalize(sql)))
        qs == IF r.err # Nil THEN <<>> ELSE << r.q >>
    IN  IF Len(qs) = 0
        THEN [q |-> EmptyQuery, err |-> r.err]
        ELSE [q |-> qs[1], err |-> r.err]

\* ------------------------------------------------------------------------
\* The statements the entry points are called with
\* ------------------------------------------------------------------------

\* bounds of the input families
MaxFields == 2

MaxRows == 2

MaxSelectFields == 2

MaxStmts == 3

MaxOrderFields == 2

\* the parts joined with sep between them
RECURSIVE JoinWith(_, _)
JoinWith(parts, sep) ==
    IF parts = <<>> THEN <<>>
    ELSE IF Len(parts) = 1 THEN parts[1]
    ELSE parts[1] \o sep \o JoinWith(Tail(parts), sep)

\* INSERT statements: n declared fields, value rows of the lengths given
\* by shape, and a tail after the last row
FieldNames == << <<"a">>, <<"b">>, <<"c">>, <<"d">> >>

DigitText == << <<"1">>, <<"2">>, <<"3">>, <<"4">>, <<"5">> >>

InsertFields(n) == SubSeq(FieldNames, 1, n)

\* the value of row r, column c: bare or quoted in turn
ValueIsQuoted(r, c) == (r + c) % 2 = 1

ValueContent(r, c) ==
    IF ValueIsQuoted(r, c) THEN <<"v"," ">> \o DigitText[r] \o DigitText[c]
    ELSE DigitText[r] \o DigitText[c]

ValueText(r, c) ==
    IF ValueIsQuoted(r, c) THEN <<"'">> \o ValueContent(r, c) \o <<"'">>
    ELSE ValueContent(r, c)

RowText(r, n) ==
    <<"(">> \o JoinWith([c \in 1..n |-> ValueText(r, c)], <<","," ">>) \o <<")">>

RowContent(r, n) == [c \in 1..n |-> ValueContent(r, c)]

RowShapes == UNION {[1..m -> 1..(MaxFields + 1)] : m \in 1..MaxRows}

OnDuplicateKey == <<" ","O","N"," ","D","U","P","L","I","C","A","T","E"," ","K","E","Y"," ","U","P","D","A","T","E">>

\* what follows the clause ON DUPLICATE KEY UPDATE
OnDuplicateRests == { <<>>, <<" ","a"," ","="," ","1">>, <<" ","(">>, <<" ","f","o","o"," ","b","a","r">> }

OnDuplicateTails ==
    {OnDuplicateKey \o rest : rest \in OnDuplicateRests}
    \cup { <<" ","o","n"," ","d","u","p","l","i","c","a","t","e"," ","k","e","y"," ","u","p","d","a","t","e"," ","b"," ","="," ","b">> }

InsertTails == { <<>>, <<" ","f","o","o">>, <<" ","(">> } \cup OnDuplicateTails

InsertStmt(n, shape, tail) ==
    <<"I","N","S","E","R","T"," ","I","N","T","O"," ","t","h","e","r","e"," ","(">> \o JoinWith(InsertFields(n), <<","," ">>)
      \o <<")"," ","V","A","L","U","E","S"," ">>
      \o JoinWith([r \in 1..Len(shape) |-> RowText(r, shape[r])], <<","," ">>)
      \o tail

\* every shape of rows without a tail, and every tail after a single row
InsertStmts ==
    {InsertStmt(n, shape, <<>>) : n \in 1..MaxFields, shape \in RowShapes}
    \cup
    {InsertStmt(n, <<m>>, tail) :
        n \in 1..MaxFields, m \in 1..(MaxFields + 1), tail \in InsertTails}

\* SELECT statements: an optional TOP, a field list, a table and a tail
\* delete is read as a field before a comma and, together with the FROM
\* behind it, as the reserved word DELETE FROM at the end of the list
SelectFieldPool == { <<"*">>, <<"s","t","a","r","t">>, <<"d","e","l","e","t","e">>, <<"t",".","a">>, <<"d","e","s","c","r","i","p","t","i","o","n">> }

SelectFieldLists ==
    UNION {[1..m -> SelectFieldPool] : m \in 1..MaxSelectFields}

SelectTops == { <<>>, <<"T","O","P"," ","5"," ">>, <<"t","o","p"," ","x"," ">> }

SelectStmt(top, fields, rest) ==
    <<"S","E","L","E","C","T"," ">> \o top \o JoinWith(fields, <<","," ">>) \o <<" ","F","R","O","M"," ">> \o rest

\* the tail of the statement of cmd/main.go: two joins, a WHERE and an
\* ORDER BY list
TwoJoinsTail ==
    <<" ","j","o","i","n"," ","w","h","a","t"," ","o","n"," ","t","h","e","r","e",".","i","t"," ","!","="," ","w","h","a","t",".","w","h","a","t"," ","a","n","d"," ","t","h","e","r","e",".","w","h","o"," ","="," ","w","h","a","t",".","x"," ","l","e","f","t"," ","j","o","i","n"," ","w","h","o","o","t"," ","o","n"," ","w","h","o","o","t",".","t","w","e","e","t"," ","<","="," ","w","h","a","t",".","w","h","a","t"," ","w","h","e","r","e"," ","t","h","i","s"," ","="," ","t","h","a","t"," ","o","r","d","e","r"," ","b","y"," ","s","t","a","r","t"," ","d","e","s","c",","," ","e","n","d",","," ","m","i","d","d","l","e"," ","a","s","c">>

SelectTails ==
    { <<>>,
      <<" ","W","H","E","R","E"," ","t","h","i","s"," ","="," ","t","h","a","t">>,
      <<" ","w","h","e","r","e"," ","t","h","i","s"," ","="," ","t","h","a","t"," ","a","n","d"," ","a"," ",">","="," ","'","x"," ","y","'">>,
      <<" ","W","H","E","R","E"," ","b"," ","=">>,
      <<" ","W","H","E","R","E"," ","b"," ","="," ","'","'">>,
      <<" ","W","H","E","R","E"," ","b">>,
      <<" ","W","H","E","R","E">>,
      <<" ","W","H","E","R","E"," ","b"," ","="," ","'","x">>,
      <<" ","O","R","D","E","R"," ","B","Y"," ","s","t","a","r","t">>,
      <<" ","W","H","E","R","E"," ","t","h","i","s"," ","="," ","t","h","a","t"," ","O","R","D","E","R"," ","B","Y"," ","s","t","a","r","t"," ","D","E","S","C",","," ","e","n","d",","," ","m","i","d","d","l","e"," ","A","S","C">>,
      <<" ","W","H","E","R","E"," ","t","h","i","s"," ","="," ","t","h","a","t"," ","o","r","d","e","r"," ","b","y"," ","s","t","a","r","t">>,
      TwoJoinsTail,
      <<" ","J","O","I","N"," ","w","h","a","t"," ","O","N"," ","i","t"," ","="," ","w","h","a","t",".","w","h","a","t">>,
      <<" ","J","O","I","N"," ","w","h","a","t"," ","O","N"," ","t","h","e","r","e",".","i","t"," ","~"," ","w","h","a","t",".","w","h","a","t">>,
      <<" ","J","O","I","N"," ","w","h","a","t"," ","O","N"," ","t","h","e","r","e",".","i","t"," ","="," ","w","h","a","t">>,
      <<" ","I","N","N","E","R"," ","J","O","I","N"," ","w","h","a","t"," ","O","N"," ","t","h","e","r","e",".","i","t"," ","="," ","w","h","a","t",".","i","t"," ","R","I","G","H","T"," ","J","O","I","N"," ","x">>,
      <<" ","J","O","I","N"," ","w","h","a","t"," ","W","H","E","R","E"," ","a"," ","="," ","1">>,
      <<" ","u">>,
      <<" ","O","R","D","E","R"," ","B","Y"," ","a"," ","b">>,
      <<" ","O","R","D","E","R"," ","B","Y"," ","1">> }

SelectTables == { <<"t","h","e","r","e">>, <<"d","b",".","t","h","e","r","e">>, <<"d","b",".">>, <<".","t","h","e","r","e">> }

SelectStmts ==
    {SelectStmt(top, fields, <<"t","h","e","r","e">> \o tail) :
        top \in SelectTops, fields \in SelectFieldLists,
        tail \in {<<>>, <<" ","W","H","E","R","E"," ","t","h","i","s"," ","="," ","t","h","a","t">>}}
    \cup
    {SelectStmt(<<>>, << <<"s","t","a","r","t">>, <<"m","i","d","d","l","e">>, <<"e","n","d">> >>, table \o tail) :
        table \in SelectTables, tail \in SelectTails}

\* SELECT statements with an ORDER BY list: after each field no direction,
\* or a direction in either case
OrderFieldNames == << <<"s","t","a","r","t">>, <<"e","n","d">>, <<"m","i","d","d","l","e">> >>

OrderWritings == {"none", "ASC", "DESC", "desc"}

OrderWritingText(w) ==
    IF w = "none" THEN <<>>
    ELSE IF w = "ASC" THEN <<" ","A","S","C">>
    ELSE IF w = "DESC" THEN <<" ","D","E","S","C">>
    ELSE <<" ","d","e","s","c">>

OrderLists == UNION {[1..m -> OrderWritings] : m \in 1..MaxOrderFields}

OrderWheres == { <<>>, <<" ","W","H","E","R","E"," ","t","h","i","s"," ","="," ","t","h","a","t">> }

OrderStmt(where, ws) ==
    <<"S","E","L","E","C","T"," ","a"," ","F","R","O","M"," ","t","h","e","r","e">> \o where \o <<" ","O","R","D","E","R"," ","B","Y"," ">>
      \o JoinWith([n \in 1..Len(ws) |->
                      OrderFieldNames[n] \o OrderWritingText(ws[n])], <<","," ">>)

OrderStmts == {OrderStmt(where, ws) : where \in OrderWheres, ws \in OrderLists}

\* statements written as pieces, each a keyword of the grammar or some
\* other text, to be written with the keywords in different letter cases
K(text) == [kw |-> TRUE, text |-> text]

T(text) == [kw |-> FALSE, text |-> text]

CaseTemplates ==
    << << K(<<"S","E","L","E","C","T">>), T(<<" ">>), K(<<"T","O","P">>), T(<<" ","5"," ","a"," ">>), K(<<"F","R","O","M">>),
          T(<<" ","t","h","e","r","e"," ">>), K(<<"W","H","E","R","E">>), T(<<" ","t","h","i","s"," ","="," ","t","h","a","t"," ">>), K(<<"A","N","D">>),
          T(<<" ","a"," ",">","="," ","'","x"," ","y","'"," ">>), K(<<"O","R","D","E","R"," ","B","Y">>), T(<<" ","s","t","a","r","t"," ">>), K(<<"D","E","S","C">>),
          T(<<","," ","e","n","d"," ">>), K(<<"A","S","C">>) >>,
       << K(<<"S","E","L","E","C","T">>), T(<<" ","a"," ">>), K(<<"F","R","O","M">>), T(<<" ","t","h","e","r","e"," ">>), K(<<"J","O","I","N">>),
          T(<<" ","w","h","a","t"," ">>), K(<<"O","N">>), T(<<" ","t","h","e","r","e",".","i","t"," ","="," ","w","h","a","t",".","i","t"," ">>), K(<<"A","N","D">>),
          T(<<" ","t","h","e","r","e",".","a"," ","!","="," ","w","h","a","t",".","b"," ">>), K(<<"L","E","F","T"," ","J","O","I","N">>), T(<<" ","x"," ">>), K(<<"O","N">>),
          T(<<" ","x",".","a"," ","<"," ","t","h","e","r","e",".","a"," ">>), K(<<"R","I","G","H","T"," ","J","O","I","N">>), T(<<" ","y"," ">>), K(<<"O","N">>),
          T(<<" ","y",".","a"," ","="," ","x",".","a"," ">>), K(<<"I","N","N","E","R"," ","J","O","I","N">>), T(<<" ","z"," ">>), K(<<"O","N">>),
          T(<<" ","z",".","a"," ","="," ","y",".","a"," ">>), K(<<"W","H","E","R","E">>), T(<<" ","a"," ","="," ","1">>) >>,
       << K(<<"I","N","S","E","R","T"," ","I","N","T","O">>), T(<<" ","t","h","e","r","e"," ","(","a",","," ","b",")"," ">>), K(<<"V","A","L","U","E","S">>),
          T(<<" ","(","1",","," ","'","x","'",")"," ">>), K(<<"O","N"," ","D","U","P","L","I","C","A","T","E"," ","K","E","Y"," ","U","P","D","A","T","E">>), T(<<" ","a"," ","="," ","1">>) >>,
       << K(<<"U","P","D","A","T","E">>), T(<<" ","t","h","e","r","e"," ">>), K(<<"S","E","T">>), T(<<" ","a"," ","="," ","1",","," ","b"," ","="," ","'","x","'"," ">>),
          K(<<"W","H","E","R","E">>), T(<<" ","c"," ","<","="," ","3"," ">>), K(<<"A","N","D">>), T(<<" ","d"," ",">"," ","4">>) >>,
       << K(<<"D","E","L","E","T","E"," ","F","R","O","M">>), T(<<" ","t","h","e","r","e"," ">>), K(<<"W","H","E","R","E">>), T(<<" ","a"," ","="," ","1">>) >>,
       << K(<<"D","E","L","E","T","E"," ","F","R","O","M">>), T(<<" ","t","h","e","r","e">>) >>,
       << K(<<"U","P","D","A","T","E">>), T(<<" ","t","h","e","r","e"," ">>), K(<<"S","E","T">>), T(<<" ","a"," ">>), K(<<"W","H","E","R","E">>) >>,
       << K(<<"S","E","L","E","C","T">>), T(<<" ","a"," ">>), K(<<"F","R","O","M">>), T(<<" ","t","h","e","r","e"," ">>), K(<<"J","O","I","N">>),
          T(<<" ","w","h","a","t"," ">>), K(<<"O","N">>), T(<<" ","i","t"," ","="," ","w","h","a","t",".","i","t">>) >>,
       << K(<<"I","N","S","E","R","T"," ","I","N","T","O">>), T(<<" ","t","h","e","r","e"," ","(","a",")"," ">>), K(<<"V","A","L","U","E","S">>), T(<<" ","(","1",","," ","2",")">>) >> >>

\* the number of keywords among the first n pieces of template t
KeywordsUpTo(t, n) == Cardinality({m \in 1..n : t[m].kw})

\* the ways of writing the keywords of template t: all in upper case, all
\* in lower case, all with alternating case, or only the n-th in lower case
CaseStyles(t) ==
    {[kind |-> kind, n |-> 0] : kind \in {"upper", "lower", "mixed"}}
    \cup {[kind |-> "one", n |-> n] : n \in 1..KeywordsUpTo(t, Len(t))}

ToLower(s) == [n \in 1..Len(s) |-> ToLowerChar(s[n])]

AlternateCase(s) ==
    [n \in 1..Len(s) |-> IF n % 2 = 0 THEN ToLowerChar(s[n]) ELSE s[n]]

\* a keyword, the n-th of its template, written in the given style
KeywordIn(style, n, word) ==
    IF style.kind = "lower" \/ (style.kind = "one" /\ style.n = n)
    THEN ToLower(word)
    ELSE IF style.kind = "mixed" THEN AlternateCase(word)
    ELSE word

RECURSIVE Concat(_)
Concat(parts) ==
    IF parts = <<>> THEN <<>> ELSE Head(parts) \o Concat(Tail(parts))

\* template t with its keywords written in the given style
Render(t, style) ==
    Concat([n \in 1..Len(t) |->
              IF t[n].kw THEN KeywordIn(style, KeywordsUpTo(t, n), t[n].text)
              ELSE t[n].text])

UpperStyle == [kind |-> "upper", n |-> 0]

LowerStyle == [kind |-> "lower", n |-> 0]

CaseStmts ==
    UNION {{Render(CaseTemplates[t], style) : style \in CaseStyles(CaseTemplates[t])} :
             t \in 1..Len(CaseTemplates)}

\* INSERT and UPDATE statements with a reserved word where a field is
\* expected
ReservedFieldInserts ==
    { <<"I","N","S","E","R","T"," ","I","N","T","O"," ","t","h","e","r","e"," ","(","W","H","E","R","E",")"," ","V","A","L","U","E","S"," ","(","1",")">>,
      <<"I","N","S","E","R","T"," ","I","N","T","O"," ","t","h","e","r","e"," ","(","a",","," ","v","a","l","u","e","s",")"," ","V","A","L","U","E","S"," ","(","1",","," ","2",")">>,
      <<"I","N","S","E","R","T"," ","I","N","T","O"," ","t","h","e","r","e"," ","(","S","E","L","E","C","T">> }

ReservedFieldUpdates ==
    { <<"U","P","D","A","T","E"," ","t","h","e","r","e"," ","S","E","T"," ","W","H","E","R","E"," ","="," ","1"," ","W","H","E","R","E"," ","a"," ","="," ","1">>,
      <<"U","P","D","A","T","E"," ","t","h","e","r","e"," ","S","E","T"," ","a"," ","="," ","1",","," ","s","e","l","e","c","t"," ","="," ","2"," ","W","H","E","R","E"," ","b"," ","="," ","3">>,
      <<"U","P","D","A","T","E"," ","t","h","e","r","e"," ","S","E","T"," ","V","A","L","U","E","S">> }

\* statements of the four kinds on a table reference without a dot, with
\* one and with two
TableRefs == { <<"t","h","e","r","e">>, <<"d","b",".","t","h","e","r","e">>, <<"a",".","b",".","c">> }

TableRefKinds == {"Select", "Insert", "Update", "Delete"}

TableRefStmt(kind, ref) ==
    IF kind = "Select" THEN <<"S","E","L","E","C","T"," ","a"," ","F","R","O","M"," ">> \o ref \o <<" ","W","H","E","R","E"," ","a"," ","="," ","1">>
    ELSE IF kind = "Insert" THEN <<"I","N","S","E","R","T"," ","I","N","T","O"," ">> \o ref \o <<" ","(","a",")"," ","V","A","L","U","E","S"," ","(","1",")">>
    ELSE IF kind = "Update" THEN <<"U","P","D","A","T","E"," ">> \o ref \o <<" ","S","E","T"," ","a"," ","="," ","1"," ","W","H","E","R","E"," ","b"," ","="," ","2">>
    ELSE <<"D","E","L","E","T","E"," ","F","R","O","M"," ">> \o ref \o <<" ","W","H","E","R","E"," ","a"," ","="," ","1">>

TableRefStmts == {TableRefStmt(kind, ref) : kind \in TableRefKinds, ref \in TableRefs}

\* SELECT statements whose join condition has an operand with an empty
\* table or field, or a condition after a token other than ON and AND
HalfOperandJoins ==
    { <<"S","E","L","E","C","T"," ","a"," ","F","R","O","M"," ","t","h","e","r","e"," ","J","O","I","N"," ","w","h","a","t"," ","O","N"," ","t","h","e","r","e","."," ","="," ","w","h","a","t",".","x">>,
      <<"S","E","L","E","C","T"," ","a"," ","F","R","O","M"," ","t","h","e","r","e"," ","J","O","I","N"," ","w","h","a","t"," ","O","N"," ","t","h","e","r","e",".","a"," ","="," ",".","x">>,
      <<"S","E","L","E","C","T"," ","a"," ","F","R","O","M"," ","t","h","e","r","e"," ","J","O","I","N"," ","w","h","a","t"," ","O","N"," ",".","a"," ",">","="," ","w","h","a","t",".","x"," ","A","N","D"," ","t","h","e","r","e",".","b"," ","="," ","w","h","a","t",".">> }

UnintroducedJoins ==
    { <<"S","E","L","E","C","T"," ","a"," ","F","R","O","M"," ","t","h","e","r","e"," ","J","O","I","N"," ","w","h","a","t"," ","O","N"," ","t","h","e","r","e",".","a"," ","="," ","w","h","a","t",".","x"," ","f","o","o"," ","b","a","r",".","b"," ","="," ","c",".","d">> }

\* UPDATE and DELETE statements: a head and a WHERE tail
MutationHeads ==
    { <<"U","P","D","A","T","E"," ","t","h","e","r","e"," ","S","E","T"," ","a"," ","="," ","1">>,
      <<"U","P","D","A","T","E"," ","d","b",".","t","h","e","r","e"," ","S","E","T"," ","a"," ","="," ","'","x"," ","y","'",","," ","b"," ","="," ","2">>,
      <<"u","p","d","a","t","e"," ","t","h","e","r","e"," ","s","e","t"," ","a"," ","="," ","1",","," ","a"," ","="," ","2">>,
      <<"D","E","L","E","T","E"," ","F","R","O","M"," ","t","h","e","r","e">>,
      <<"d","e","l","e","t","e"," ","f","r","o","m"," ","d","b",".","t","h","e","r","e">>,
      <<"D","E","L","E","T","E"," ","F","R","O","M"," ","d","b",".">> }

MutationTails ==
    { <<>>,
      <<" ","W","H","E","R","E"," ","t","h","i","s"," ","="," ","t","h","a","t">>,
      <<" ","W","H","E","R","E"," ","b"," ","=">>,
      <<" ","W","H","E","R","E"," ","b"," ","="," ","'","'">>,
      <<" ","W","H","E","R","E">>,
      <<" ","W","H","E","R","E"," ","b">>,
      <<" ","W","H","E","R","E"," ","a"," ","!","="," ","1"," ","A","N","D"," ","b"," ","<"," ","2">>,
      <<" ","W","H","E","R","E"," ","a"," ","="," ","1"," ","A","N","D">>,
      <<" ","O","R","D","E","R"," ","B","Y"," ","a">> }

MutationStmts == {head \o tail : head \in MutationHeads, tail \in MutationTails}

\* statements that stop early, and statements that need normalising
OtherStmts ==
    { <<>>, <<" "," ">>, <<"F","O","O">>, <<"S","E","L","E","C","T">>, <<"S","E","L","E","C","T"," ","T","O","P">>, <<"S","E","L","E","C","T"," ","a",",">>, <<"S","E","L","E","C","T"," ","a"," ","b">>,
      <<"S","E","L","E","C","T"," ","a"," ","F","R","O","M">>, <<"S","E","L","E","C","T"," ","a"," ","F","R","O","M"," ","#">>,
      <<" ","S","E","L","E","C","T"," "," ">> \o <<Backquote>> \o <<"a">> \o <<Backquote>> \o <<"\t"," ","F","R","O","M","\n","t","h","e","r","e"," ">>,
      <<"I","N","S","E","R","T"," ","I","N","T","O">>, <<"I","N","S","E","R","T"," ","I","N","T","O"," ","t","h","e","r","e">>, <<"I","N","S","E","R","T"," ","I","N","T","O"," ","t","h","e","r","e"," ","a">>,
      <<"I","N","S","E","R","T"," ","I","N","T","O"," ","t","h","e","r","e"," ","(","a">>, <<"I","N","S","E","R","T"," ","I","N","T","O"," ","t","h","e","r","e"," ","(","a"," ","b">>, <<"I","N","S","E","R","T"," ","I","N","T","O"," ","t","h","e","r","e"," ","(","a",")">>,
      <<"I","N","S","E","R","T"," ","I","N","T","O"," ","t","h","e","r","e"," ","(","a",")"," ","S","E","T">>, <<"I","N","S","E","R","T"," ","I","N","T","O"," ","t","h","e","r","e"," ","(","a",")"," ","V","A","L","U","E","S">>,
      <<"I","N","S","E","R","T"," ","I","N","T","O"," ","t","h","e","r","e"," ","(","a",")"," ","V","A","L","U","E","S"," ","1">>, <<"I","N","S","E","R","T"," ","I","N","T","O"," ","t","h","e","r","e"," ","(","a",")"," ","V","A","L","U","E","S"," ","(">>,
      <<"I","N","S","E","R","T"," ","I","N","T","O"," ","t","h","e","r","e"," ","(","a",")"," ","V","A","L","U","E","S"," ","(","'","x">>, <<"I","N","S","E","R","T"," ","I","N","T","O"," ","t","h","e","r","e"," ","(","a",")"," ","V","A","L","U","E","S"," ","(","1"," ","2">>,
      <<"I","N","S","E","R","T"," ","I","N","T","O"," ","d","b",".","t","h","e","r","e"," ","(","a",")"," ","V","A","L","U","E","S"," ","(","1",")">>,
      <<"U","P","D","A","T","E">>, <<"U","P","D","A","T","E"," ","t","h","e","r","e">>, <<"U","P","D","A","T","E"," ","t","h","e","r","e"," ","a">>, <<"U","P","D","A","T","E"," ","t","h","e","r","e"," ","S","E","T">>,
      <<"U","P","D","A","T","E"," ","t","h","e","r","e"," ","S","E","T"," ","a">>, <<"U","P","D","A","T","E"," ","t","h","e","r","e"," ","S","E","T"," ","a"," ","1">>, <<"U","P","D","A","T","E"," ","t","h","e","r","e"," ","S","E","T"," ","a"," ","=">>,
      <<"U","P","D","A","T","E"," ","t","h","e","r","e"," ","S","E","T"," ","a"," ","="," ","1",",">>, <<"U","P","D","A","T","E"," ","t","h","e","r","e"," ","S","E","T"," ","a"," ","="," ","1"," ","b">>,
      <<"D","E","L","E","T","E"," ","F","R","O","M">>, <<"D","E","L","E","T","E"," ","F","R","O","M"," ","#">>,
      <<"S","E","L","E","C","T"," ","T","O","P"," ","9","2","2","3","3","7","2","0","3","6","8","5","4","7","7","5","8","0","8"," ","a"," ","F","R","O","M"," ","t">>,
      <<"S","E","L","E","C","T"," ","T","O","P"," ","-","0","0","7"," ","a"," ","F","R","O","M"," ","t">> }

\* the statements Parse is called with
ParseInputs ==
    InsertStmts \cup SelectStmts \cup OrderStmts \cup CaseStmts
    \cup ReservedFieldInserts \cup ReservedFieldUpdates \cup TableRefStmts
    \cup HalfOperandJoins \cup UnintroducedJoins
    \cup MutationStmts
    \cup OtherStmts

\* the statements ParseMany is called with sequences of
ManyPool ==
    { <<"S","E","L","E","C","T"," ","a"," ","F","R","O","M"," ","t">>, <<"D","E","L","E","T","E"," "," ","F","R","O","M"," ","t"," ","W","H","E","R","E"," ","a"," ","="," ","1">>, <<"D","E","L","E","T","E"," ","F","R","O","M"," ","t">>,
      <<"F","O","O">>, <<"S","E","L","E","C","T"," ","T","O","P"," ","x"," ","a"," ","F","R","O","M"," ","t">> }

ParseManyInputs == UNION {[1..m -> ManyPool] : m \in 0..MaxStmts}

\* ------------------------------------------------------------------------
\* The state machine
\* ------------------------------------------------------------------------

VARIABLES
    entry,   \* the entry point called: "Parse" or "ParseMany"
    input,   \* its argument: the statements, in order (one for Parse)
    pc,      \* where control is
    sqls,    \* ParseMany: the parameter sqls
    k,       \* ParseMany: the position of the range loop in sqls
    qs,      \* ParseMany: the local qs
    q,       \* ParseMany: the local q of the loop body
    err,     \* ParseMany: the local err of the loop body
    p,       \* the parser of the parse call in progress
    dq,      \* parser.parse: the local q, returned by doParse
    derr,    \* parser.parse: the local err, returned by doParse
    many,    \* what ParseMany returned: [qs, err]
    one,     \* what Parse returned: [q, err]
    validated  \* parser.parse: how many times it has called validate

vars ==
    <<entry, input, pc, sqls, k, qs, q, err, p, dq, derr, many, one, validated>>

Init ==
    /\ \/ entry = "Parse" /\ input \in {<<s>> : s \in ParseInputs}
                          /\ pc = "Parse" /\ sqls = <<>>
       \/ entry = "ParseMany" /\ input \in ParseManyInputs
                              /\ pc = "range" /\ sqls = input
    /\ k = 1
    /\ qs = <<>>
    /\ q = EmptyQuery
    /\ err = Nil
    /\ p = NewParser(<<>>)
    /\ dq = EmptyQuery
    /\ derr = Nil
    /\ many = [qs |-> <<>>, err |-> Nil]
    /\ one = [q |-> EmptyQuery, err |-> Nil]
    /\ validated = 0

\* Parse, up to its call of ParseMany
ParseCall ==
    /\ pc = "Parse"
    /\ sqls' = << Normalize(input[1]) >>
    /\ pc' = "range"
    /\ UNCHANGED <<entry, input, k, qs, q, err, p, dq, derr, many, one, validated>>

\* a return statement of ParseMany
ParseManyReturns(rqs, rerr) ==
    /\ many' = [qs |-> rqs, err |-> rerr]
    /\ pc' = IF entry = "Parse" THEN "ParseResult" ELSE "done"

\* ParseMany: the head of the range loop and the call of parse, or the
\* return after the loop
ParseManyRange ==
    /\ pc = "range"
    /\ IF k <= Len(sqls)
       THEN /\ p' = NewParser(Normalize(sqls[k]))
            /\ validated' = 0
            /\ pc' = "doParse"
            /\ UNCHANGED many
       ELSE /\ ParseManyReturns(qs, Nil)
            /\ UNCHANGED <<p, validated>>
    /\ UNCHANGED <<entry, input, sqls, k, qs, q, err, dq, derr, one>>

\* doParse: the cursor is at the end of the text
DoParseEnd ==
    /\ pc = "doParse"
    /\ p.i >= Len(p.sql)
    /\ dq' = p.query
    /\ derr' = p.err
    /\ pc' = "parse"
    /\ UNCHANGED <<entry, input, sqls, k, qs, q, err, p, many, one, validated>>

\* doParse: one pass through the loop body at the given step, r being
\* what the case of that step does to the parser
DoStep(step, r) ==
    /\ pc = "doParse"
    /\ p.i < Len(p.sql)
    /\ p.step = step
    /\ p' = r.p
    /\ pc' = IF r.out = "continue" THEN "doParse"
             ELSE IF r.out = "return" THEN "parse" ELSE "fatal"
    /\ dq' = IF r.out = "return" THEN r.p.query ELSE dq
    /\ derr' = IF r.out = "return" THEN r.err ELSE derr
    /\ UNCHANGED <<entry, input, sqls, k, qs, q, err, many, one, validated>>

DoStepType == DoStep("stepType", caseStepType(p))

DoStepTop == DoStep("stepTop", caseStepTop(p))

DoStepSelectField == DoStep("stepSelectField", caseStepSelectField(p))

DoStepSelectFrom == DoStep("stepSelectFrom", caseStepSelectFrom(p))

DoStepSelectComma == DoStep("stepSelectComma", caseStepSelectComma(p))

DoStepSelectFromTable == DoStep("stepSelectFromTable", caseStepSelectFromTable(p))

DoStepInsertTable == DoStep("stepInsertTable", caseStepInsertTable(p))

DoStepInsertFieldsOpeningParens == DoStep("stepInsertFieldsOpeningParens", caseStepInsertFieldsOpeningParens(p))

DoStepInsertFields == DoStep("stepInsertFields", caseStepInsertFields(p))

DoStepInsertFieldsCommaOrClosingParens ==
    DoStep("stepInsertFieldsCommaOrClosingParens",
           caseStepInsertFieldsCommaOrClosingParens(p))

DoStepInsertValuesOpeningParens == DoStep("stepInsertValuesOpeningParens", caseStepInsertValuesOpeningParens(p))

DoStepInsertValuesRWord == DoStep("stepInsertValuesRWord", caseStepInsertValuesRWord(p))

DoStepInsertValues == DoStep("stepInsertValues", caseStepInsertValues(p))

DoStepInsertValuesCommaOrClosingParens ==
    DoStep("stepInsertValuesCommaOrClosingParens", caseStepInsertValuesCommaOrClosingParens(p))

DoStepInsertValuesCommaBeforeOpeningParens ==
    DoStep("stepInsertValuesCommaBeforeOpeningParens", caseStepInsertValuesCommaBeforeOpeningParens(p))

DoStepUpdateTable == DoStep("stepUpdateTable", caseStepUpdateTable(p))

DoStepUpdateSet == DoStep("stepUpdateSet", caseStepUpdateSet(p))

DoStepUpdateField == DoStep("stepUpdateField", caseStepUpdateField(p))

DoStepUpdateEquals == DoStep("stepUpdateEquals", caseStepUpdateEquals(p))

DoStepUpdateValue == DoStep("stepUpdateValue", caseStepUpdateValue(p))

DoStepUpdateComma == DoStep("stepUpdateComma", caseStepUpdateComma(p))

DoStepDeleteFromTable == DoStep("stepDeleteFromTable", caseStepDeleteFromTable(p))

DoStepWhere == DoStep("stepWhere", caseStepWhere(p))

DoStepWhereField == DoStep("stepWhereField", caseStepWhereField(p))

DoStepWhereOperator == DoStep("stepWhereOperator", caseStepWhereOperator(p))

DoStepWhereValue == DoStep("stepWhereValue", caseStepWhereValue(p))

DoStepWhereAnd == DoStep("stepWhereAnd", caseStepWhereAnd(p))

DoStepOrder == DoStep("stepOrder", caseStepOrder(p))

DoStepOrderField == DoStep("stepOrderField", caseStepOrderField(p))

DoStepOrderDirectionOrComma == DoStep("stepOrderDirectionOrComma", caseStepOrderDirectionOrComma(p))

DoStepJoin == DoStep("stepJoin", caseStepJoin(p))

DoStepJoinTable == DoStep("stepJoinTable", caseStepJoinTable(p))

DoStepJoinCondition == DoStep("stepJoinCondition", caseStepJoinCondition(p))

\* parser.parse calling the validator whatever doParse returned
ParseValidateAlways ==
    /\ pc = "parse"
    /\ p' = [p EXCEPT !.err = validate(p)]
    /\ validated' = validated + 1
    /\ q' = dq
    /\ err' = validate(p)
    /\ pc' = "check"
    /\ UNCHANGED <<entry, input, sqls, k, qs, dq, derr, many, one>>

\* parser.parse after doParse has returned: the validator runs when
\* doParse gave no error, and the call returns into the loop of ParseMany
ParseValidate ==
    /\ pc = "parse"
    /\ p' = [p EXCEPT !.err = parseErr(p, derr)]
    /\ validated' = IF derr = Nil THEN validated + 1 ELSE validated
    /\ q' = dq
    /\ err' = parseErr(p, derr)
    /\ pc' = "check"
    /\ UNCHANGED <<entry, input, sqls, k, qs, dq, derr, many, one>>

\* the loop body skipping a statement that failed and going on
ParseManyCheckSkipsFailed ==
    /\ pc = "check"
    /\ qs' = IF err # Nil THEN qs ELSE Append(qs, q)
    /\ k' = k + 1
    /\ pc' = "range"
    /\ UNCHANGED <<entry, input, sqls, q, err, p, dq, derr, one, many, validated>>

\* the loop body appending the AST before it looks at the error
ParseManyCheckAppendsFirst ==
    /\ pc = "check"
    /\ qs' = Append(qs, q)
    /\ IF err # Nil
       THEN /\ ParseManyReturns(Append(qs, q), err)
            /\ UNCHANGED k
       ELSE /\ k' = k + 1
            /\ pc' = "range"
            /\ UNCHANGED many
    /\ UNCHANGED <<entry, input, sqls, q, err, p, dq, derr, one, validated>>

\* ParseMany: the rest of the loop body after parse has returned
ParseManyCheck ==
    /\ pc = "check"
    /\ IF err # Nil
       THEN /\ ParseManyReturns(qs, err)
            /\ UNCHANGED <<qs, k>>
       ELSE /\ qs' = Append(qs, q)
            /\ k' = k + 1
            /\ pc' = "range"
            /\ UNCHANGED many
    /\ UNCHANGED <<entry, input, sqls, q, err, p, dq, derr, one, validated>>

\* Parse after ParseMany has returned
ParseResult ==
    /\ pc = "ParseResult"
    /\ one' = IF Len(many.qs) = 0
              THEN [q |-> EmptyQuery, err |-> many.err]
              ELSE [q |-> many.qs[1], err |-> many.err]
    /\ pc' = "done"
    /\ UNCHANGED <<entry, input, sqls, k, qs, q, err, p, dq, derr, many, validated>>

Next ==
    \/ ParseCall
    \/ ParseManyRange
    \/ DoParseEnd
    \/ DoStepType
    \/ DoStepTop
    \/ DoStepSelectField
    \/ DoStepSelectFrom
    \/ DoStepSelectComma
    \/ DoStepSelectFromTable
    \/ DoStepInsertTable
    \/ DoStepInsertFieldsOpeningParens
    \/ DoStepInsertFields
    \/ DoStepInsertFieldsCommaOrClosingParens
    \/ DoStepInsertValuesOpeningParens
    \/ DoStepInsertValuesRWord
    \/ DoStepInsertValues
    \/ DoStepInsertValuesCommaOrClosingParens
    \/ DoStepInsertValuesCommaBeforeOpeningParens
    \/ DoStepUpdateTable
    \/ DoStepUpdateSet
    \/ DoStepUpdateField
    \/ DoStepUpdateEquals
    \/ DoStepUpdateValue
    \/ DoStepUpdateComma
    \/ DoStepDeleteFromTable
    \/ DoStepWhere
    \/ DoStepWhereField
    \/ DoStepWhereOperator
    \/ DoStepWhereValue
    \/ DoStepWhereAnd
    \/ DoStepOrder
    \/ DoStepOrderField
    \/ DoStepOrderDirectionOrComma
    \/ DoStepJoin
    \/ DoStepJoinTable
    \/ DoStepJoinCondition
    \/ ParseValidate
    \/ ParseManyCheck
    \/ ParseResult

Spec == Init /\ [][Next]_vars


\* ------------------------------------------------------------------------
\* Properties
\* ------------------------------------------------------------------------

\* Parse has returned to its caller
ParseReturned == entry = "Parse" /\ pc = "done"

\* the AST of an INSERT INTO there with n fields and the rows written
InsertQuery(n, rows) ==
    [EmptyQuery EXCEPT !.Type = "Insert", !.TableName = <<"t","h","e","r","e">>,
                       !.Fields = InsertFields(n), !.Inserts = rows]

\* C1: an INSERT whose VALUES clause has k >= 1 rows, each with as many
\* values as there are declared fields, parses successfully, and the
\* inserts of its AST are the k rows written, in order, each holding its
\* values in order.
MultiRowInsertKeepsEveryRow ==
    ParseReturned =>
        \A n \in 1..MaxFields, rows \in 1..MaxRows :
            input = << InsertStmt(n, [r \in 1..rows |-> n], <<>>) >> =>
                /\ one.err = Nil
                /\ one.q.Fields = InsertFields(n)
                /\ Len(one.q.Inserts) = rows
                /\ \A r \in 1..rows : one.q.Inserts[r] = RowContent(r, n)

\* C2: an INSERT in which some value row, the first or a later one, has
\* fewer or more values than there are declared fields fails with the
\* value-count error, whatever follows the row.
MismatchedInsertRowRejected ==
    ParseReturned =>
        /\ \A n \in 1..MaxFields, shape \in RowShapes :
             (/\ input = << InsertStmt(n, shape, <<>>) >>
              /\ \E r \in 1..Len(shape) : shape[r] # n)
             => one.err = "at INSERT INTO: value count doesn't match field count"
        /\ \A n \in 1..MaxFields, m \in 1..(MaxFields + 1), tail \in InsertTails :
             (input = << InsertStmt(n, <<m>>, tail) >> /\ m # n)
             => one.err = "at INSERT INTO: value count doesn't match field count"

\* a condition with a resolved operator and two non-empty operands
ConditionComplete(c) ==
    /\ c.Operator # "UnknownOperator"
    /\ c.Operand1 # <<>>
    /\ c.Operand2 # <<>>

\* C3: on a successful parse every condition of the AST has an operator
\* other than Unknown, a non-empty left operand and a non-empty right
\* operand.
ConditionsCompleteOnSuccess ==
    (pc = "check" /\ err = Nil) =>
        \A n \in 1..Len(q.Conditions) : ConditionComplete(q.Conditions[n])

\* C4: an UPDATE or DELETE whose AST has no condition is rejected: parse,
\* and so Parse, returns an error; DELETE FROM there reaches the validator
\* and gets the WHERE-is-mandatory error.
MutationWithoutWhereRejected ==
    /\ (pc = "check" /\ q.Type \in {"Update", "Delete"} /\ Len(q.Conditions) = 0)
         => err # Nil
    /\ (ParseReturned /\ p.query.Type \in {"Update", "Delete"}
          /\ Len(p.query.Conditions) = 0)
         => (one.err # Nil /\ one.q = EmptyQuery)
    /\ (ParseReturned /\ input = << <<"D","E","L","E","T","E"," ","F","R","O","M"," ","t","h","e","r","e">> >>)
         => (derr = Nil /\ one.err =
               "at WHERE: WHERE clause is mandatory for UPDATE & DELETE")

\* C4 witness: DELETE FROM there has gone through doParse without error and
\* Parse has returned the validator's error
MutationWithoutWhereSeen ==
    /\ ParseReturned
    /\ input = << <<"D","E","L","E","T","E"," ","F","R","O","M"," ","t","h","e","r","e">> >>
    /\ p.query.Type = "Delete"
    /\ p.query.TableName = <<"t","h","e","r","e">>
    /\ Len(p.query.Conditions) = 0
    /\ derr = Nil
    /\ one.err = "at WHERE: WHERE clause is mandatory for UPDATE & DELETE"

\* C5: whatever the input, the call returns to its caller, with an AST or
\* an error: no step ends the process.
NoStepEndsTheProcess == pc # "fatal"

\* what parse gives for each statement of the input of ParseMany
ResultOf(n) == parse(Normalize(input[n]))

\* the statements of the input whose parse does not return an AST
Stopping == {n \in 1..Len(input) :
               ResultOf(n).out # "return" \/ ResultOf(n).err # Nil}

FirstStopping == CHOOSE n \in Stopping : \A o \in Stopping : n <= o

\* C6: ParseMany parses the statements in order and stops at the first
\* that fails: it returns the ASTs of the statements before it, in order,
\* with its error, and parses no statement after it; when none fails it
\* returns the ASTs of all the statements, in order, and no error.
ParseManyStopsAtFirstFailure ==
    entry = "ParseMany" =>
        /\ k <= Len(input) + 1
        /\ \A n \in 1..(k - 1) : n \notin Stopping
        /\ Len(qs) = k - 1
        /\ pc = "done" =>
             /\ Len(many.qs) = k - 1
             /\ \A n \in 1..(k - 1) : many.qs[n] = ResultOf(n).q
             /\ IF Stopping = {}
                THEN k = Len(input) + 1 /\ many.err = Nil
                ELSE /\ k = FirstStopping
                     /\ many.err # Nil
                     /\ many.err = ResultOf(k).err

\* C6 witness: ParseMany has returned with the error of the second of three
\* statements, the AST of the first, and the third not parsed
ParseManyStoppedInTheMiddle ==
    /\ entry = "ParseMany"
    /\ pc = "done"
    /\ Len(input) = 3
    /\ k = 2
    /\ Len(many.qs) = 1
    /\ many.err # Nil
    /\ ResultOf(3).err = Nil

\* C7: on a successful parse the kind of the AST is one of Select, Insert,
\* Update and Delete, and its table name is not empty.
KindAndTableSetOnSuccess ==
    /\ (pc = "check" /\ err = Nil) =>
          /\ q.Type \in {"Select", "Insert", "Update", "Delete"}
          /\ q.TableName # <<>>
    /\ (ParseReturned /\ one.err = Nil) =>
          /\ one.q.Type \in {"Select", "Insert", "Update", "Delete"}
          /\ one.q.TableName # <<>>

\* C7 witness: a successful parse that left doParse by the early return
\* after an INSERT row, before the end of the text
InsertEarlyReturnSucceeded ==
    /\ ParseReturned
    /\ one.err = Nil
    /\ one.q.Type = "Insert"
    /\ one.q.TableName = <<"t","h","e","r","e">>
    /\ p.step = "stepInsertValuesCommaBeforeOpeningParens"
    /\ p.i < Len(p.sql)

\* C8: in every state of the parser the order fields and the order
\* directions of the AST are equally many.
OrderListsSameLength ==
    /\ Len(p.query.OrderFields) = Len(p.query.OrderDir)
    /\ Len(dq.OrderFields) = Len(dq.OrderDir)
    /\ Len(q.OrderFields) = Len(q.OrderDir)
    /\ Len(one.q.OrderFields) = Len(one.q.OrderDir)
    /\ \A n \in 1..Len(qs) : Len(qs[n].OrderFields) = Len(qs[n].OrderDir)

\* C8 witness: the parser in the middle of an ORDER BY list, having read a
\* direction for the first field and a second field without one
OrderListInProgress ==
    /\ pc = "doParse"
    /\ p.step = "stepOrderDirectionOrComma"
    /\ Len(p.query.OrderFields) = 2
    /\ p.query.OrderDir = << <<"D","E","S","C">>, <<"A","S","C">> >>

\* C9: when a value row of an INSERT has closed with as many values as
\* there are fields and ON DUPLICATE KEY UPDATE follows, Parse returns
\* success with the AST built so far, and the cursor never goes into the
\* text after the clause.
OnDuplicateKeyEndsWithSuccess ==
    entry = "Parse" =>
        \A n \in 1..MaxFields, rest \in OnDuplicateRests :
            input = << InsertStmt(n, <<n>>, OnDuplicateKey \o rest) >> =>
                /\ p.sql # <<>> => p.i <= Len(p.sql) - Len(TrimSpace(rest))
                /\ pc = "done" =>
                     /\ one.err = Nil
                     /\ one.q = InsertQuery(n, << RowContent(1, n) >>)

\* C9 witness: Parse has returned success for an INSERT followed by the
\* clause and more text, the cursor standing before that text
OnDuplicateKeySeen ==
    /\ ParseReturned
    /\ input = << InsertStmt(2, <<2>>, OnDuplicateKey \o <<" ","a"," ","="," ","1">>) >>
    /\ one.err = Nil
    /\ Len(one.q.Inserts) = 1
    /\ p.i = Len(p.sql) - 5

\* the SELECT statements of C10: with or without a TOP count, with or
\* without a WHERE clause
FieldListTops == { <<>>, <<"T","O","P"," ","5"," ">> }

FieldListTails == { <<>>, <<" ","W","H","E","R","E"," ","t","h","i","s"," ","="," ","t","h","a","t">> }

\* s begins, in whatever case, with an entry of the catalogue
BeginsWithReservedWord(s) ==
    \E n \in 1..Len(reservedWords) :
        ToUpper(SubSeq(s, 1, min(Len(s), Len(reservedWords[n]))))
          = reservedWords[n]

TextFromField(fields, n, rest) ==
    JoinWith(SubSeq(fields, n, Len(fields)), <<","," ">>) \o <<" ","F","R","O","M"," ">> \o rest

\* no entry of the catalogue matches the text at the start of any field
NoFieldReadAsReservedWord(fields, rest) ==
    \A n \in 1..Len(fields) :
        ~BeginsWithReservedWord(TextFromField(fields, n, rest))

SelectFieldReadWithFromSeen ==
    /\ ParseReturned
    /\ input = << SelectStmt(<<>>, << <<"s","t","a","r","t">>, <<"d","e","l","e","t","e">> >>, <<"t","h","e","r","e">>) >>
    /\ one.err = "at SELECT: expected field to SELECT"

\* the direction stored for a field: ASC when none is written, else the
\* written one
OrderDirOf(w) == IF w = "none" \/ w = "ASC" THEN <<"A","S","C">> ELSE <<"D","E","S","C">>

\* C11: in an ORDER BY list the direction of field n is ASC when none is
\* written after it and the written ASC or DESC when one follows it; the
\* statement with two JOIN ... ON clauses, a WHERE and the list
\* start desc, end, middle asc gives two joins, the fields start, end,
\* middle and the directions DESC, ASC, ASC.
OrderDirectionsAsWritten ==
    ParseReturned =>
        /\ \A where \in OrderWheres, ws \in OrderLists :
             input = << OrderStmt(where, ws) >> =>
                /\ one.err = Nil
                /\ one.q.OrderFields = SubSeq(OrderFieldNames, 1, Len(ws))
                /\ one.q.OrderDir = [n \in 1..Len(ws) |-> OrderDirOf(ws[n])]
        /\ input = << SelectStmt(<<>>, << <<"s","t","a","r","t">>, <<"m","i","d","d","l","e">>, <<"e","n","d">> >>,
                                 <<"t","h","e","r","e">> \o TwoJoinsTail) >> =>
                /\ one.err = Nil
                /\ Len(one.q.Joins) = 2
                /\ one.q.OrderFields = << <<"s","t","a","r","t">>, <<"e","n","d">>, <<"m","i","d","d","l","e">> >>
                /\ one.q.OrderDir = << <<"D","E","S","C">>, <<"A","S","C">>, <<"A","S","C">> >>

\* a list whose first field is written DESC and whose second has no
\* direction has been parsed
OrderDefaultAfterDescSeen ==
    /\ ParseReturned
    /\ \E where \in OrderWheres : input = << OrderStmt(where, <<"DESC", "none">>) >>
    /\ one.q.OrderDir = << <<"D","E","S","C">>, <<"A","S","C">> >>

\* C12: keywords are matched whatever their letter case: a statement whose
\* keywords are written in lower case, in alternating case, or with a
\* single keyword in lower case, identifiers and literals unchanged, gives
\* the AST and the error or success of the statement with all keywords in
\* upper case.
KeywordCaseIgnored ==
    ParseReturned =>
        \A t \in 1..Len(CaseTemplates) :
            \A style \in CaseStyles(CaseTemplates[t]) :
                input = << Render(CaseTemplates[t], style) >> =>
                    one = Parse(Render(CaseTemplates[t], UpperStyle))

\* the statement with four joins, written all in lower case, has been
\* parsed with success
LowerCaseJoinsSeen ==
    /\ ParseReturned
    /\ input = << Render(CaseTemplates[2], LowerStyle) >>
    /\ one.err = Nil
    /\ Len(one.q.Joins) = 4
    /\ Len(one.q.Joins[1].Conditions) = 2
    /\ Len(one.q.Conditions) = 1

\* C13: whenever Parse returns an error, the AST it returns is the empty
\* Query: the AST built up to the failure is never returned with an error.
ParseErrorGivesEmptyQuery ==
    (ParseReturned /\ one.err # Nil) => one.q = EmptyQuery

\* Parse has returned an error after parse had built part of an AST
ParseFailedWithPartialQuery ==
    /\ ParseReturned
    /\ one.err # Nil
    /\ q # EmptyQuery
    /\ q.Fields # <<>>
    /\ one.q = EmptyQuery

\* C14: the validator runs exactly once after the state machine completes,
\* when it ended without error and when it ended with a grammar error
\* alike, so its checks apply to the outcome of every parse.
ValidatorRunsAfterEveryParse ==
    pc = "check" => validated = 1

\* C14, as the code has it: when the state machine ended without error the
\* validator runs exactly once and its verdict is the error of the parse;
\* when the state machine ended with a grammar error the validator does not
\* run and that error is returned; it never runs before the state machine
\* has completed.
ValidatorRunsOnceAfterCleanParse ==
    /\ pc \in {"doParse", "parse"} => validated = 0
    /\ pc = "check" =>
          IF derr = Nil
          THEN validated = 1 /\ err = validate(p)
          ELSE validated = 0 /\ err = derr

\* the state machine ended without error and the validator, run once,
\* rejected the AST
ValidatorRejectedCleanParse ==
    /\ pc = "check"
    /\ derr = Nil
    /\ validated = 1
    /\ err # Nil

\* the token is a word of the reserved-word catalogue, in any letter case
IsReservedWordToken(s) ==
    \E n \in 1..Len(reservedWordsOnly) : ToUpper(s) = reservedWordsOnly[n]

\* C15: a reserved word in the field position of UPDATE SET or of an INSERT
\* field list is rejected with the error of that position, and is never
\* stored as a key of updates or as an entry of fields.
ReservedWordFieldRejected ==
    /\ p.query.Type = "Insert" =>
          \A n \in 1..Len(p.query.Fields) : ~IsReservedWordToken(p.query.Fields[n])
    /\ p.query.Type = "Update" =>
          /\ ~IsReservedWordToken(p.nextUpdateField)
          /\ \A key \in DOMAIN p.query.Updates : ~IsReservedWordToken(key)
    /\ ParseReturned =>
          /\ input[1] \in ReservedFieldInserts =>
                one.err = "at INSERT INTO: expected at least one field to insert"
          /\ input[1] \in ReservedFieldUpdates =>
                one.err = "at UPDATE: expected at least one field to update"

\* C16: in a SELECT the table reference is read from one token: once the
\* table step has stored it, no later token changes table or database
\* (SELECT a FROM t u does not end with table = u).
SelectTableReadOnce ==
    [][(/\ pc = "doParse"
        /\ p.query.Type = "Select"
        /\ (p.query.TableName # <<>> \/ p.query.Database # <<>>))
       => (/\ p'.query.TableName = p.query.TableName
           /\ p'.query.Database = p.query.Database)]_vars

\* the position of the first dot of a text that has one
FirstDot(s) ==
    CHOOSE n \in 1..Len(s) : s[n] = "." /\ \A m \in 1..(n - 1) : s[m] # "."

\* C17: for a table reference with a dot, in SELECT, INSERT, UPDATE and
\* DELETE alike, database is the text before the first dot and table the
\* text after that first dot; for a reference without a dot database stays
\* empty and table is the whole token.
TableReferenceSplitAtFirstDot ==
    ParseReturned =>
        \A kind \in TableRefKinds, ref \in TableRefs :
            input = << TableRefStmt(kind, ref) >> =>
                /\ one.err = Nil
                /\ one.q.Type = kind
                /\ IF Contains(ref, <<".">>)
                   THEN /\ one.q.Database = SubSeq(ref, 1, FirstDot(ref) - 1)
                        /\ one.q.TableName = SubSeq(ref, FirstDot(ref) + 1, Len(ref))
                   ELSE /\ one.q.Database = <<>>
                        /\ one.q.TableName = ref

\* a join condition with a known operator and both tables and both fields
\* non-empty
JoinConditionComplete(c) ==
    /\ c.Operator \in Operators \ {"UnknownOperator"}
    /\ c.Table1 # <<>> /\ c.Operand1 # <<>>
    /\ c.Table2 # <<>> /\ c.Operand2 # <<>>

\* C18: every join condition stored in the AST has a recognised operator
\* and, on both sides, a non-empty table name and a non-empty field name;
\* an operand that is not of the two-part form table.field stops the parse
\* with the error of the ON position.
JoinConditionsInTableFieldForm ==
    /\ \A j \in 1..Len(p.query.Joins) :
          \A n \in 1..Len(p.query.Joins[j].Conditions) :
              JoinConditionComplete(p.query.Joins[j].Conditions[n])
    /\ (ParseReturned /\ input[1] \in HalfOperandJoins) =>
          one.err = "at ON: expected <tablename>.<fieldname>"

\* a is a proper prefix of b
IsProperPrefix(a, b) == Len(a) < Len(b) /\ SubSeq(b, 1, Len(a)) = a

\* the catalogue entries that match the text at cursor position i,
\* whatever the letter case
MatchingEntries(sql, i) ==
    {n \in 1..Len(reservedWords) :
        ToUpper(Slice(sql, i, min(Len(sql), i + Len(reservedWords[n]))))
          = reservedWords[n]}

\* C19: with the catalogue in its declared order the first match is the
\* longest match: no entry comes after a proper prefix of it, and at every
\* cursor position of every statement the entry the scanner returns is as
\* long as every entry that matches there.
FirstMatchIsLongestMatch ==
    /\ \A m, n \in 1..Len(reservedWords) :
          m < n => ~IsProperPrefix(reservedWords[m], reservedWords[n])
    /\ (pc = "doParse" /\ p.step = "stepType" /\ p.i = 0) =>
          \A i \in 0..(Len(p.sql) - 1) :
              \A n \in MatchingEntries(p.sql, i) :
                  /\ Len(reservedWords[n]) <= peekWithLength([p EXCEPT !.i = i])[2]
                  /\ IsProperPrefix(reservedWords[n], peek([p EXCEPT !.i = i]))
                       \/ reservedWords[n] = peek([p EXCEPT !.i = i])

\* the cursor is at an operator that two catalogue entries match, and the
\* scanner reads the longer one
TwoEntriesMatchAtCursor ==
    /\ pc = "doParse"
    /\ p.step = "stepWhereOperator"
    /\ Cardinality(MatchingEntries(p.sql, p.i)) = 2
    /\ peek(p) = <<">","=">>

\* C20: parsing terminates on every input: a step of the state machine
\* never moves the cursor back nor past the end of the text, it either
\* goes on or returns, and a step that goes on without consuming a
\* character moves to another step, so that a return is reached after
\* finitely many steps.
EveryStepAdvancesOrReturns ==
    [][pc = "doParse" =>
         /\ p'.i >= p.i
         /\ p'.i <= Len(p'.sql)
         /\ pc' \in {"doParse", "parse"}
         /\ (pc' = "doParse" /\ p'.i = p.i) => p'.step # p.step]_vars

\* the loop of doParse is about to run the case of the current step
StepRuns == pc = "doParse" /\ p.i < Len(p.sql)

\* the steps that read or write the last element of a sequence of the AST
LastConditionSteps == {"stepWhereOperator", "stepWhereValue"}

LastOrderDirSteps == {"stepOrderDirectionOrComma"}

LastJoinSteps == {"stepJoinTable", "stepJoinCondition"}

LastInsertSteps == {"stepInsertValues", "stepInsertValuesCommaOrClosingParens"}

\* the steps that split the table name at its dots
TableSteps ==
    {"stepSelectFromTable", "stepInsertTable", "stepDeleteFromTable",
     "stepUpdateTable"}

\* the steps that call peekQuotedStringWithLength at the cursor themselves
QuotedValueSteps == {"stepUpdateValue", "stepWhereValue", "stepInsertValues"}

\* C21: no step that runs makes an out-of-range access: a step that reads
\* or writes the last element of conditions, joins, inserts or order_dirs
\* finds that sequence non-empty; the second part of a split table name is
\* read only when the split gives two parts; and the character at the
\* cursor, which peekQuotedStringWithLength reads unless the length of the
\* text is below the cursor, is read only with the cursor strictly below
\* that length.
NoOutOfRangeAccess ==
    /\ p.i <= Len(p.sql)
    /\ StepRuns =>
          /\ p.step \in LastConditionSteps => Len(p.query.Conditions) >= 1
          /\ p.step \in LastOrderDirSteps => Len(p.query.OrderDir) >= 1
          /\ p.step \in LastJoinSteps => Len(p.query.Joins) >= 1
          /\ p.step \in LastInsertSteps => Len(p.query.Inserts) >= 1
          /\ (p.step \in TableSteps /\ Contains(peek(p), <<".">>)) =>
                Len(SplitDot(peek(p))) >= 2
          /\ (p.step \in QuotedValueSteps /\ ~(Len(p.sql) < p.i)) =>
                p.i < Len(p.sql)

\* a value step is about to read the last character of the text, with
\* the condition it writes to in place
ValueReadAtLastCharacter ==
    /\ StepRuns
    /\ p.step = "stepWhereValue"
    /\ p.i = Len(p.sql) - 1
    /\ Len(p.query.Conditions) = 2
====
